---- MODULE Spec2Model ----
(***************************************************************************)
(* Model of the misaki-rs grapheme-to-phoneme engine: the stress engine,   *)
(* the lexicon (dictionary growth, lookup, stemming, special cases) and    *)
(* the g2p pipeline with its right-to-left context pass and its recursive  *)
(* calls.                                                                  *)
(*                                                                         *)
(* Strings are sequences of characters.  A character is written as a TLA+  *)
(* string: an ASCII character stands for itself, a non-ASCII character has *)
(* a name ("PRI" is the primary stress mark U+02C8, "SEC" the secondary    *)
(* stress mark U+02CC, "eacute" is U+00E9, ...).  Utf8Len gives the number *)
(* of bytes of a character, so that byte lengths and byte slices are       *)
(* computed as Rust computes them.                                         *)
(*                                                                         *)
(* Stress values (f64 in the source) are kept doubled, as integers:        *)
(* -4 is -2.0, -1 is -0.5, 1 is 0.5, 4 is 2.0.                             *)
(***************************************************************************)
EXTENDS Integers, Sequences, FiniteSets, TLC

VARIABLES lexicon, stack, status, result, probe

vars == <<lexicon, stack, status, result, probe>>

(***************************************************************************)
(* Characters                                                              *)
(***************************************************************************)
LowerLetters ==
    <<"a","b","c","d","e","f","g","h","i","j","k","l","m",
      "n","o","p","q","r","s","t","u","v","w","x","y","z">>

UpperLetters ==
    <<"A","B","C","D","E","F","G","H","I","J","K","L","M",
      "N","O","P","Q","R","S","T","U","V","W","X","Y","Z">>

SeqToSet(s) == {s[i] : i \in 1..Len(s)}

AsciiLower == SeqToSet(LowerLetters)

AsciiUpper == SeqToSet(UpperLetters)

AsciiLetters == AsciiLower \cup AsciiUpper

AsciiDigits == {"0","1","2","3","4","5","6","7","8","9"}

\* char::is_ascii_punctuation, restricted to the characters of the model
AsciiPunct == {".", ",", "!", "?", "-", "_", "'", "%", "&", "+", "@", "/"}

\* the IPA letters of the phoneme alphabet (all of them 2 bytes in UTF-8
\* except ibar, U+1D7B, which takes 3)
IpaLetters ==
    {"ae", "alpha", "turnalpha", "openo", "schwa", "eps", "reveps", "smallI",
     "upsilon", "wedge", "ibar", "turna", "eth", "eng", "scriptg", "turnr",
     "flap", "esh", "ezh", "dezh", "tesh", "theta"}

\* non-ASCII characters of input text: e-acute (U+00E9, 2 bytes, a letter
\* that g2p normalises to e), a CJK ideograph (3 bytes, a letter), the em
\* dash (U+2014, 3 bytes), the degree sign (U+00B0, 2 bytes)
AlphabeticChars == AsciiLetters \cup IpaLetters \cup {"eacute", "cjk", "PRI", "SEC", "len"}

IsAlphabetic(c) == c \in AlphabeticChars

Utf8Len(c) ==
    IF c \in {"cjk", "emdash", "ibar", "UNK"} THEN 3
    ELSE IF c \in IpaLetters \cup {"eacute", "deg", "PRI", "SEC", "len"} THEN 2
    ELSE 1

IndexOf(s, c) == CHOOSE i \in 1..Len(s) : s[i] = c

ToLowerChar(c) == IF c \in AsciiUpper THEN LowerLetters[IndexOf(UpperLetters, c)] ELSE c

ToUpperChar(c) == IF c \in AsciiLower THEN UpperLetters[IndexOf(LowerLetters, c)] ELSE c

ToLower(s) == [i \in 1..Len(s) |-> ToLowerChar(s[i])]

ToUpper(s) == [i \in 1..Len(s) |-> ToUpperChar(s[i])]

(***************************************************************************)
(* Strings                                                                 *)
(***************************************************************************)
RECURSIVE ByteLen(_)
ByteLen(s) == IF s = <<>> THEN 0 ELSE Utf8Len(Head(s)) + ByteLen(Tail(s))

RECURSIVE Concat(_)
Concat(ss) == IF ss = <<>> THEN <<>> ELSE Head(ss) \o Concat(Tail(ss))

RECURSIVE Join(_, _)
Join(ss, sep) ==
    IF ss = <<>> THEN <<>>
    ELSE IF Len(ss) = 1 THEN ss[1]
    ELSE ss[1] \o sep \o Join(Tail(ss), sep)

Contains(s, c) == \E i \in 1..Len(s) : s[i] = c

RECURSIVE Remove(_, _)
Remove(s, c) ==
    IF s = <<>> THEN <<>>
    ELSE IF Head(s) = c THEN Remove(Tail(s), c)
    ELSE <<Head(s)>> \o Remove(Tail(s), c)

ReplaceChar(s, c, d) == [i \in 1..Len(s) |-> IF s[i] = c THEN d ELSE s[i]]

EndsWith(s, suf) ==
    /\ Len(s) >= Len(suf)
    /\ SubSeq(s, Len(s) - Len(suf) + 1, Len(s)) = suf

StartsWith(s, pre) ==
    /\ Len(s) >= Len(pre)
    /\ SubSeq(s, 1, Len(pre)) = pre

DropLast(s, n) == SubSeq(s, 1, Len(s) - n)

\* the byte offsets at which a character of s starts, and the end of s
CharBoundaries(s) == {ByteLen(SubSeq(s, 1, k)) : k \in 0..Len(s)}

\* &s[..n] for a byte offset n: the characters before offset n.  Rust panics
\* when n is not a character boundary; IsCharBoundary tells.
IsCharBoundary(s, n) == n \in CharBoundaries(s)

BytePrefix(s, n) ==
    LET k == CHOOSE j \in 0..Len(s) :
                 /\ ByteLen(SubSeq(s, 1, j)) <= n
                 /\ \A m \in 0..Len(s) : ByteLen(SubSeq(s, 1, m)) <= n => m <= j
    IN  SubSeq(s, 1, k)

(***************************************************************************)
(* Stress engine (lexicon.rs, apply_stress and restress)                   *)
(***************************************************************************)
primary == "PRI"

secondary == "SEC"

\* "AIOQWYaiu" and the IPA vowels of the vowel string
vowels ==
    {"A", "I", "O", "Q", "W", "Y", "a", "i", "u", "ae", "alpha", "turnalpha",
     "openo", "schwa", "eps", "reveps", "smallI", "upsilon", "wedge", "ibar"}

NoStress == [some |-> FALSE, v |-> 0]

SomeStress(v) == [some |-> TRUE, v |-> v]

HasVowel(ps) == \E i \in 1..Len(ps) : ps[i] \in vowels

IsStressMark(c) == c = primary \/ c = secondary

\* restress: a stress mark that has a vowel at or after it gets the sort key
\* of that vowel minus one half; every other character keeps its index as
\* key; the characters are then sorted by key with a stable sort.  Keys are
\* doubled here.
RestressKey(ps, i) ==
    IF IsStressMark(ps[i]) /\ \E j \in i..Len(ps) : ps[j] \in vowels
    THEN 2 * (CHOOSE j \in i..Len(ps) :
                  /\ ps[j] \in vowels
                  /\ \A k \in i..Len(ps) : ps[k] \in vowels => j <= k) - 1
    ELSE 2 * i

\* a faulty variant of restress: the characters are sorted in descending order
RestressReversed(ps) == [k \in 1..Len(ps) |-> ps[Len(ps) + 1 - k]]

\* a faulty variant of restress: the characters are left in their order
RestressUnsorted(ps) == ps

restress(ps) ==
    LET Before(j, i) ==
            \/ RestressKey(ps, j) < RestressKey(ps, i)
            \/ RestressKey(ps, j) = RestressKey(ps, i) /\ j < i
        Pos(i) == 1 + Cardinality({j \in 1..Len(ps) : Before(j, i)})
    IN  [p \in 1..Len(ps) |-> ps[CHOOSE i \in 1..Len(ps) : Pos(i) = p]]

\* a faulty variant of StripStress: the secondary marks are left in place
StripPrimaryOnly(ps) == Remove(ps, primary)

StripStress(ps) == Remove(Remove(ps, primary), secondary)

\* a faulty variant of PlacePrimary: the mark is prepended and not moved to
\* the vowel
PrependPrimary(ps) == <<primary>> \o ps

PlacePrimary(ps) == restress(<<primary>> \o ps)

apply_stress(ps, stress) ==
    IF ~stress.some THEN ps
    ELSE LET s == stress.v IN
        IF s < -2 THEN StripStress(ps)
        ELSE IF s = -2 \/ (s >= -1 /\ s <= 0 /\ Contains(ps, primary))
        THEN ReplaceChar(Remove(ps, secondary), primary, secondary)
        ELSE IF s \in {0, 1, 2} /\ ~Contains(ps, primary) /\ ~Contains(ps, secondary)
        THEN IF ~HasVowel(ps) THEN ps ELSE restress(<<secondary>> \o ps)
        ELSE IF s >= 2 /\ ~Contains(ps, primary) /\ Contains(ps, secondary)
        THEN ReplaceChar(ps, secondary, primary)
        ELSE IF s > 2 /\ ~Contains(ps, primary) /\ ~Contains(ps, secondary)
        THEN IF ~HasVowel(ps) THEN ps ELSE PlacePrimary(ps)
        ELSE ps

(***************************************************************************)
(* Dictionary store (lexicon.rs, PhonemeEntry, grow_dictionary)            *)
(***************************************************************************)
None == [some |-> FALSE, v |-> <<>>]

Some(v) == [some |-> TRUE, v |-> v]

\* PhonemeEntry::Simple and PhonemeEntry::Tagged; the map of a tagged entry
\* is a function from tag keys to optional phoneme strings
Simple(ps) == [kind |-> "Simple", ps |-> ps, map |-> <<>>]

Tagged(map) == [kind |-> "Tagged", ps |-> <<>>, map |-> map]

Capitalize(lower) ==
    IF lower = <<>> THEN <<>> ELSE <<ToUpperChar(Head(lower))>> \o Tail(lower)

GrowLower(d) ==
    {k \in DOMAIN d : ByteLen(k) >= 2 /\ k = ToLower(k) /\ k # Capitalize(ToLower(k))}

GrowCapitalized(d) ==
    {k \in DOMAIN d : ByteLen(k) >= 2 /\ k # ToLower(k) /\ k = Capitalize(ToLower(k))}

\* the map e of grow_dictionary: the capitalized form of every lowercase key
\* and the lowercase form of every capitalized key
GrowExtra(d) ==
    [w \in {Capitalize(k) : k \in GrowLower(d)} \cup {ToLower(k) : k \in GrowCapitalized(d)} |->
        IF \E k \in GrowLower(d) : Capitalize(k) = w
        THEN d[CHOOSE k \in GrowLower(d) : Capitalize(k) = w]
        ELSE d[CHOOSE k \in GrowCapitalized(d) : ToLower(k) = w]]

\* result.extend(e): the entries of e replace those of d under the same key
grow_dictionary(d) ==
    LET Extend(e) == [w \in DOMAIN d \cup DOMAIN e |-> IF w \in DOMAIN e THEN e[w] ELSE d[w]]
    IN  Extend(GrowExtra(d))

(***************************************************************************)
(* Dictionary contents.  The dictionaries are data files loaded at         *)
(* construction (data.rs); the model uses a small gold and silver map in   *)
(* two variants: "full" has an entry for every single ASCII letter in both *)
(* cases, "sparse" lacks the letters q and Q and the word five.            *)
(***************************************************************************)
\* the phonemes of the letter names, in the order of UpperLetters
LetterPhonemes ==
    <<<<"PRI", "A">>,
      <<"b", "PRI", "i">>,
      <<"s", "PRI", "i">>,
      <<"d", "PRI", "i">>,
      <<"PRI", "i">>,
      <<"PRI", "eps", "f">>,
      <<"dezh", "PRI", "i">>,
      <<"PRI", "A", "tesh">>,
      <<"PRI", "I">>,
      <<"dezh", "PRI", "A">>,
      <<"k", "PRI", "A">>,
      <<"PRI", "eps", "l">>,
      <<"PRI", "eps", "m">>,
      <<"PRI", "eps", "n">>,
      <<"PRI", "O">>,
      <<"p", "PRI", "i">>,
      <<"k", "j", "PRI", "u">>,
      <<"PRI", "alpha", "turnr">>,
      <<"PRI", "eps", "s">>,
      <<"t", "PRI", "i">>,
      <<"j", "PRI", "u">>,
      <<"v", "PRI", "i">>,
      <<"d", "PRI", "wedge", "b", "schwa", "l", "j", "u">>,
      <<"PRI", "eps", "k", "s">>,
      <<"w", "PRI", "I">>,
      <<"z", "PRI", "i">>>>

\* the words of the numbers 0..19 and of the tens 20..90
OnesWords ==
    <<<<"z", "e", "r", "o">>,
      <<"o", "n", "e">>,
      <<"t", "w", "o">>,
      <<"t", "h", "r", "e", "e">>,
      <<"f", "o", "u", "r">>,
      <<"f", "i", "v", "e">>,
      <<"s", "i", "x">>,
      <<"s", "e", "v", "e", "n">>,
      <<"e", "i", "g", "h", "t">>,
      <<"n", "i", "n", "e">>,
      <<"t", "e", "n">>,
      <<"e", "l", "e", "v", "e", "n">>,
      <<"t", "w", "e", "l", "v", "e">>,
      <<"t", "h", "i", "r", "t", "e", "e", "n">>,
      <<"f", "o", "u", "r", "t", "e", "e", "n">>,
      <<"f", "i", "f", "t", "e", "e", "n">>,
      <<"s", "i", "x", "t", "e", "e", "n">>,
      <<"s", "e", "v", "e", "n", "t", "e", "e", "n">>,
      <<"e", "i", "g", "h", "t", "e", "e", "n">>,
      <<"n", "i", "n", "e", "t", "e", "e", "n">>>>

TensWords ==
    <<<<"t", "w", "e", "n", "t", "y">>,
      <<"t", "h", "i", "r", "t", "y">>,
      <<"f", "o", "r", "t", "y">>,
      <<"f", "i", "f", "t", "y">>,
      <<"s", "i", "x", "t", "y">>,
      <<"s", "e", "v", "e", "n", "t", "y">>,
      <<"e", "i", "g", "h", "t", "y">>,
      <<"n", "i", "n", "e", "t", "y">>>>

LetterEntries ==
    [w \in {<<c>> : c \in AsciiLetters} |->
        Simple(LetterPhonemes[IndexOf(UpperLetters, ToUpperChar(w[1]))])]

WordEntries ==
    (<<"o","n","e">> :> Simple(<<"w","PRI","wedge","n">>))
    @@ (<<"f","i","v","e">> :> Simple(<<"f","PRI","I","v">>))
    @@ (<<"t","w","e","n","t","y">> :> Simple(<<"t","w","PRI","eps","n","t","i">>))
    @@ (<<"t","o">> :> Simple(<<"t","PRI","u">>))
    @@ (<<"a","m">> :> Simple(<<"PRI","ae","m">>))
    @@ (<<"c","a","t">> :> Simple(<<"k","PRI","ae","t">>))
    @@ (<<"r","u","n">> :> Simple(<<"turnr","PRI","wedge","n">>))
    @@ (<<"b","a","k","e">> :> Simple(<<"b","PRI","A","k">>))
    @@ (<<"p","l","a","y">> :> Simple(<<"p","l","PRI","A">>))
    @@ (<<"v","e","r","s","u","s">> :> Simple(<<"v","PRI","reveps","s","schwa","s">>))
    @@ (<<"p","e","r","c","e","n","t">> :> Simple(<<"p","schwa","s","PRI","eps","n","t">>))
    @@ (<<"u","s","e","d">> :>
            Tagged(("DEFAULT" :> Some(<<"j","PRI","u","z","d">>))
                   @@ ("VBD" :> Some(<<"j","PRI","u","s","t">>))))

\* the other words of number expansion (one, five and twenty are above)
NumberWordEntries ==
    (<<"z","e","r","o">> :> Simple(<<"z","PRI","smallI","turnr","O">>))
    @@ (<<"t","w","o">> :> Simple(<<"t","PRI","u">>))
    @@ (<<"t","h","r","e","e">> :> Simple(<<"theta","turnr","PRI","i">>))
    @@ (<<"f","o","u","r">> :> Simple(<<"f","PRI","openo","turnr">>))
    @@ (<<"s","i","x">> :> Simple(<<"s","PRI","smallI","k","s">>))
    @@ (<<"s","e","v","e","n">> :> Simple(<<"s","PRI","eps","v","schwa","n">>))
    @@ (<<"e","i","g","h","t">> :> Simple(<<"PRI","A","t">>))
    @@ (<<"n","i","n","e">> :> Simple(<<"n","PRI","I","n">>))
    @@ (<<"t","e","n">> :> Simple(<<"t","PRI","eps","n">>))
    @@ (<<"e","l","e","v","e","n">> :> Simple(<<"smallI","l","PRI","eps","v","schwa","n">>))
    @@ (<<"t","w","e","l","v","e">> :> Simple(<<"t","w","PRI","eps","l","v">>))
    @@ (<<"t","h","i","r","t","e","e","n">> :> Simple(<<"theta","reveps","turnr","t","PRI","i","n">>))
    @@ (<<"f","o","u","r","t","e","e","n">> :> Simple(<<"f","openo","turnr","t","PRI","i","n">>))
    @@ (<<"f","i","f","t","e","e","n">> :> Simple(<<"f","smallI","f","t","PRI","i","n">>))
    @@ (<<"s","i","x","t","e","e","n">> :> Simple(<<"s","smallI","k","s","t","PRI","i","n">>))
    @@ (<<"s","e","v","e","n","t","e","e","n">> :> Simple(<<"s","eps","v","schwa","n","t","PRI","i","n">>))
    @@ (<<"e","i","g","h","t","e","e","n">> :> Simple(<<"A","t","PRI","i","n">>))
    @@ (<<"n","i","n","e","t","e","e","n">> :> Simple(<<"n","I","n","t","PRI","i","n">>))
    @@ (<<"t","h","i","r","t","y">> :> Simple(<<"theta","PRI","reveps","turnr","flap","i">>))
    @@ (<<"f","o","r","t","y">> :> Simple(<<"f","PRI","openo","turnr","flap","i">>))
    @@ (<<"f","i","f","t","y">> :> Simple(<<"f","PRI","smallI","f","t","i">>))
    @@ (<<"s","i","x","t","y">> :> Simple(<<"s","PRI","smallI","k","s","t","i">>))
    @@ (<<"s","e","v","e","n","t","y">> :> Simple(<<"s","PRI","eps","v","schwa","n","t","i">>))
    @@ (<<"e","i","g","h","t","y">> :> Simple(<<"PRI","A","flap","i">>))
    @@ (<<"n","i","n","e","t","y">> :> Simple(<<"n","PRI","I","n","t","i">>))
    @@ (<<"h","u","n","d","r","e","d">> :> Simple(<<"h","PRI","wedge","n","d","turnr","schwa","d">>))
    @@ (<<"t","h","o","u","s","a","n","d">> :> Simple(<<"theta","PRI","W","z","schwa","n","d">>))
    @@ (<<"m","i","n","u","s">> :> Simple(<<"m","PRI","I","n","schwa","s">>))

GoldFull == LetterEntries @@ WordEntries @@ NumberWordEntries

GoldSparse ==
    [w \in DOMAIN GoldFull \ {<<"q">>, <<"Q">>, <<"f","i","v","e">>} |-> GoldFull[w]]

SilverRaw ==
    (<<"h","i">> :> Simple(<<"h","PRI","I">>))
    @@ (<<"g","o">> :> Simple(<<"g","PRI","O">>))

DictChoices == {"full", "sparse"}

GoldRaw(choice) == IF choice = "full" THEN GoldFull ELSE GoldSparse

\* Lexicon::new: both dictionaries are grown once, at construction
GrownGoldFull == grow_dictionary(GoldFull)

GrownGoldSparse == grow_dictionary(GoldSparse)

GrownSilver == grow_dictionary(SilverRaw)

\* a gold dictionary for the stemmers: bases with and without a stress mark,
\* bases that end in a consonant, in c, and in a doubled consonant
GoldStems ==
    (<<"c","a","n">> :> Simple(<<"k","ae","n">>))
    @@ (<<"r","u","n">> :> Simple(<<"turnr","PRI","wedge","n">>))
    @@ (<<"p","a","n","i","c">> :> Simple(<<"p","PRI","ae","n","smallI","k">>))
    @@ (<<"e","g","g">> :> Simple(<<"PRI","eps","scriptg">>))
    @@ (<<"c","a","t">> :> Simple(<<"k","PRI","ae","t">>))
    @@ (<<"b","a","k","e">> :> Simple(<<"b","PRI","A","k">>))
    @@ (<<"p","l","a","y">> :> Simple(<<"p","l","PRI","A">>))

GrownGoldStems == grow_dictionary(GoldStems)

\* Lexicon::new: the language and both dictionaries, grown at construction.
\* The variable lexicon holds the language and the name of the dictionary
\* data; the methods of the Lexicon take the value LexiconOf gives as self
LexiconOf(l) ==
    [british |-> l.british,
     golds |-> IF l.data = "full" THEN GrownGoldFull
               ELSE IF l.data = "sparse" THEN GrownGoldSparse
               ELSE GrownGoldStems,
     silvers |-> GrownSilver]

\* the lexicon of the engine and its fields
TheLexicon == LexiconOf(lexicon)

golds == TheLexicon.golds

silvers == TheLexicon.silvers

british == TheLexicon.british

(***************************************************************************)
(* Lexicon (lexicon.rs)                                                    *)
(***************************************************************************)
US_TAUS ==
    {"A", "I", "O", "W", "Y", "i", "u", "ae", "alpha", "schwa", "eps", "smallI",
     "turnr", "upsilon", "wedge"}

\* code points 39, 45, 65..90, 91, 97..122
LEXICON_ORDS == {"'", "-", "["} \cup AsciiLetters

add_symbols == ("." :> <<"d","o","t">>) @@ ("/" :> <<"s","l","a","s","h">>)

symbols ==
    ("%" :> <<"p","e","r","c","e","n","t">>) @@ ("&" :> <<"a","n","d">>)
    @@ ("+" :> <<"p","l","u","s">>) @@ ("@" :> <<"a","t">>)

IsSymbolWord(word, table) == Len(word) = 1 /\ word[1] \in DOMAIN table

\* the part-of-speech tags of the model, and the tag prefixes the code tests
Tags == {"NN", "NNP", "IN", "DT", "VBD", "JJ", "RB", "PRP", "TO", "ADD"}

TagStartsWith(tag, prefix) ==
    CASE prefix = "VB"  -> tag \in {"VB", "VBD", "VBG", "VBN", "VBP", "VBZ"}
      [] prefix = "NN"  -> tag \in {"NN", "NNP", "NNS", "NNPS"}
      [] prefix = "ADV" -> tag \in {"ADV"}
      [] prefix = "RB"  -> tag \in {"RB", "RBR", "RBS"}
      [] prefix = "ADJ" -> tag \in {"ADJ"}
      [] prefix = "JJ"  -> tag \in {"JJ", "JJR", "JJS"}
      [] OTHER -> FALSE

\* a faulty variant of get_parent_tag: every tag is its own parent
OwnParentTag(tag) == tag

get_parent_tag(tag) ==
    IF TagStartsWith(tag, "VB") THEN "VERB"
    ELSE IF TagStartsWith(tag, "NN") THEN "NOUN"
    ELSE IF TagStartsWith(tag, "ADV") \/ TagStartsWith(tag, "RB") THEN "ADV"
    ELSE IF TagStartsWith(tag, "ADJ") \/ TagStartsWith(tag, "JJ") THEN "ADJ"
    ELSE tag

\* Option<&TokenContext>; future_vowel is "none", "yes" or "no"
NoCtx == [some |-> FALSE, future_vowel |-> "none", future_to |-> FALSE]

DefaultContext == [future_vowel |-> "none", future_to |-> FALSE]

SomeCtx(c) == [some |-> TRUE, future_vowel |-> c.future_vowel, future_to |-> c.future_to]

CtxFutureVowel(ctx) == IF ctx.some THEN ctx.future_vowel ELSE "none"

MapGet(map, key) == IF key \in DOMAIN map THEN map[key] ELSE None

resolve_phonemes(entry, tag, ctx) ==
    IF entry.kind = "Simple" THEN Some(entry.ps)
    ELSE LET map == entry.map
             current_tag ==
                 IF ctx.some /\ ctx.future_vowel = "none" /\ "None" \in DOMAIN map
                 THEN "None" ELSE tag
         IN  IF MapGet(map, current_tag).some THEN MapGet(map, current_tag)
             ELSE IF MapGet(map, get_parent_tag(current_tag)).some
             THEN MapGet(map, get_parent_tag(current_tag))
             ELSE MapGet(map, "DEFAULT")

\* results of lookup, get_word and the stemmers: Option<(String, i32)>, and
\* the outcome "panic" of a call that panics
NoResult == [ok |-> FALSE, ps |-> <<>>, rating |-> 0, panic |-> FALSE]

Found(ps, rating) == [ok |-> TRUE, ps |-> ps, rating |-> rating, panic |-> FALSE]

Panicked == [ok |-> FALSE, ps |-> <<>>, rating |-> 0, panic |-> TRUE]

\* the index of the last occurrence of c in s, 0 when there is none
LastIndexOf(s, c) ==
    IF Contains(s, c)
    THEN CHOOSE i \in 1..Len(s) : s[i] = c /\ \A j \in (i + 1)..Len(s) : s[j] # c
    ELSE 0

RECURSIVE NnpParts(_, _)
NnpParts(self, word) ==
    IF word = <<>> THEN <<>>
    ELSE IF IsAlphabetic(Head(word)) /\ self.golds[<<ToUpperChar(Head(word))>>].kind = "Simple"
    THEN self.golds[<<ToUpperChar(Head(word))>>].ps \o NnpParts(self, Tail(word))
    ELSE NnpParts(self, Tail(word))

NnpPartCount(self, word) ==
    Cardinality({i \in 1..Len(word) :
        IsAlphabetic(word[i]) /\ self.golds[<<ToUpperChar(word[i])>>].kind = "Simple"})

\* a faulty variant of get_nnp: the leftmost secondary mark is promoted
GetNnpFirstMark(self, word) ==
    LET Primary(stressed) ==
            LET Mark(idx) ==
                    IF idx > 0
                    THEN Found([stressed EXCEPT ![idx] = primary], 3)
                    ELSE Found(stressed, 3)
            IN  Mark(IF Contains(stressed, secondary)
                     THEN CHOOSE i \in 1..Len(stressed) :
                              stressed[i] = secondary
                                  /\ \A j \in 1..(i - 1) : stressed[j] # secondary
                     ELSE 0)
    IN  IF \E i \in 1..Len(word) :
               IsAlphabetic(word[i]) /\ <<ToUpperChar(word[i])>> \notin DOMAIN self.golds
        THEN NoResult
        ELSE IF NnpPartCount(self, word) = 0 THEN NoResult
        ELSE Primary(apply_stress(NnpParts(self, word), SomeStress(0)))

get_nnp(self, word) ==
    LET Primary(stressed) ==
            LET Mark(idx) ==
                    IF idx > 0
                    THEN Found([stressed EXCEPT ![idx] = primary], 3)
                    ELSE Found(stressed, 3)
            IN  Mark(LastIndexOf(stressed, secondary))
    IN  IF \E i \in 1..Len(word) :
               IsAlphabetic(word[i]) /\ <<ToUpperChar(word[i])>> \notin DOMAIN self.golds
        THEN NoResult
        ELSE IF NnpPartCount(self, word) = 0 THEN NoResult
        ELSE Primary(apply_stress(NnpParts(self, word), SomeStress(0)))

\* lookup, lines 157-172: the entry of the gold dictionary, then the entry
\* of the silver dictionary unless the word is a folded proper noun
LookupEntry(self, is_nnp, current_word, tag, ctx) ==
    IF /\ current_word \in DOMAIN self.golds
       /\ resolve_phonemes(self.golds[current_word], tag, ctx).some
    THEN [ps |-> resolve_phonemes(self.golds[current_word], tag, ctx), rating |-> 4]
    ELSE IF ~is_nnp /\ current_word \in DOMAIN self.silvers
    THEN [ps |-> resolve_phonemes(self.silvers[current_word], tag, ctx), rating |-> 3]
    ELSE [ps |-> None, rating |-> 0]

\* lookup, lines 183-191: a folded proper noun without a primary stress is
\* spelled by get_nnp when get_nnp gives a result
LookupNnp(is_nnp, found, nnp) ==
    IF is_nnp /\ (~found.ps.some \/ ~Contains(found.ps.v, primary)) /\ nnp.ok
    THEN [ps |-> Some(nnp.ps), rating |-> nnp.rating]
    ELSE found

\* lookup, line 193: the stress is applied to what was found
LookupStressed(found, stress) ==
    IF found.ps.some THEN Found(apply_stress(found.ps.v, stress), found.rating)
    ELSE NoResult

LookupWord(self, is_nnp, current_word, tag, stress, ctx) ==
    LookupStressed(LookupNnp(is_nnp,
                             LookupEntry(self, is_nnp, current_word, tag, ctx),
                             get_nnp(self, current_word)),
                   stress)

\* lookup, lines 151-154: an upper-case word that is not a gold key is folded
IsFolded(self, word) == word = ToUpper(word) /\ word \notin DOMAIN self.golds

lookup(self, word, tag, stress, ctx) ==
    LookupWord(self, IsFolded(self, word) /\ tag = "NNP",
               IF IsFolded(self, word) THEN ToLower(word) ELSE word,
               tag, stress, ctx)

is_known(self, word, tag) ==
    IF \/ word \in DOMAIN self.golds
       \/ IsSymbolWord(word, symbols)
       \/ word \in DOMAIN self.silvers
    THEN TRUE
    ELSE IF ~\A i \in 1..Len(word) : IsAlphabetic(word[i]) THEN FALSE
    ELSE IF ~\A i \in 1..Len(word) : word[i] \in LEXICON_ORDS THEN FALSE
    ELSE IF ByteLen(word) = 1 THEN TRUE
    ELSE IF word = ToUpper(word) /\ ToLower(word) \in DOMAIN self.golds THEN TRUE
    ELSE IF ByteLen(word) > 1 /\ Tail(word) = ToUpper(Tail(word)) THEN TRUE
    ELSE FALSE

LastChar(s) == s[Len(s)]

append_s(self, stem) ==
    IF stem = <<>> THEN <<>>
    ELSE IF LastChar(stem) \in {"p", "t", "k", "f", "theta"} THEN stem \o <<"s">>
    ELSE IF LastChar(stem) \in {"s", "z", "esh", "ezh", "tesh", "dezh"}
    THEN stem \o <<IF self.british THEN "smallI" ELSE "ibar", "z">>
    ELSE stem \o <<"z">>

append_ed(self, stem) ==
    IF stem = <<>> THEN <<>>
    ELSE IF LastChar(stem) \in {"p", "k", "f", "theta", "esh", "s", "tesh"}
    THEN stem \o <<"t">>
    ELSE IF LastChar(stem) = "d"
    THEN stem \o <<IF self.british THEN "smallI" ELSE "ibar", "d">>
    ELSE IF LastChar(stem) # "t" THEN stem \o <<"d">>
    ELSE IF self.british \/ ByteLen(stem) < 2 THEN stem \o <<"smallI", "d">>
    ELSE IF Len(stem) >= 2 /\ stem[Len(stem) - 1] \in US_TAUS
    THEN DropLast(stem, 1) \o <<"flap", "ibar", "d">>
    ELSE stem \o <<"ibar", "d">>

\* a faulty variant of append_ing: the rejection rule of the British variant
\* is applied in both variants
AppendIngRejecting(self, stem) ==
    IF stem = <<>> THEN None
    ELSE IF LastChar(stem) \in {"schwa", "len"} THEN None
    ELSE Some(stem \o <<"smallI", "eng">>)

append_ing(self, stem) ==
    IF stem = <<>> THEN None
    ELSE IF self.british /\ LastChar(stem) \in {"schwa", "len"} THEN None
    ELSE IF /\ ~self.british
            /\ ByteLen(stem) > 1
            /\ LastChar(stem) = "t"
            /\ Len(stem) >= 2
            /\ stem[Len(stem) - 1] \in US_TAUS
    THEN Some(DropLast(stem, 1) \o <<"flap", "smallI", "eng">>)
    ELSE Some(stem \o <<"smallI", "eng">>)

\* Option::or_else on results: the first result when it is not None
OrElse(first, second) == IF first.ok THEN first ELSE second

\* the lookup of the stem a stemmer found
StemLookup(self, stem, tag, stress, ctx) ==
    IF ~stem.some THEN NoResult ELSE lookup(self, stem.v, tag, stress, ctx)

StemOfS(self, lower, tag) ==
    IF ByteLen(lower) < 3 \/ ~EndsWith(lower, <<"s">>) THEN None
    ELSE IF ~EndsWith(lower, <<"s","s">>) /\ is_known(self, DropLast(lower, 1), tag)
    THEN Some(DropLast(lower, 1))
    ELSE IF /\ \/ EndsWith(lower, <<"'","s">>)
               \/ /\ ByteLen(lower) > 4
                  /\ EndsWith(lower, <<"e","s">>)
                  /\ ~EndsWith(lower, <<"i","e","s">>)
            /\ is_known(self, DropLast(lower, 2), tag)
    THEN Some(DropLast(lower, 2))
    ELSE IF /\ ByteLen(lower) > 4
            /\ EndsWith(lower, <<"i","e","s">>)
            /\ is_known(self, DropLast(lower, 3) \o <<"y">>, tag)
    THEN Some(DropLast(lower, 3) \o <<"y">>)
    ELSE None

SuffixS(self, base) ==
    IF ~base.ok THEN NoResult ELSE Found(append_s(self, base.ps), base.rating)

stem_s(self, word, tag, stress, ctx) ==
    SuffixS(self, StemLookup(self, StemOfS(self, ToLower(word), tag), tag, stress, ctx))

StemOfEd(self, lower, tag) ==
    IF ByteLen(lower) < 4 \/ ~EndsWith(lower, <<"d">>) THEN None
    ELSE IF ~EndsWith(lower, <<"d","d">>) /\ is_known(self, DropLast(lower, 1), tag)
    THEN Some(DropLast(lower, 1))
    ELSE IF /\ ByteLen(lower) > 4
            /\ EndsWith(lower, <<"e","d">>)
            /\ ~EndsWith(lower, <<"e","e","d">>)
            /\ is_known(self, DropLast(lower, 2), tag)
    THEN Some(DropLast(lower, 2))
    ELSE None

SuffixEd(self, base) ==
    IF ~base.ok THEN NoResult ELSE Found(append_ed(self, base.ps), base.rating)

stem_ed(self, word, tag, stress, ctx) ==
    SuffixEd(self, StemLookup(self, StemOfEd(self, ToLower(word), tag), tag, stress, ctx))

\* &lower[..lower.len() - 4] is a byte slice: it panics when the offset is
\* inside a multi-byte character
StemIngSliceOk(lower) == IsCharBoundary(lower, ByteLen(lower) - 4)

DoubledConsonants ==
    {"b","c","d","g","k","l","m","n","p","r","s","t","v","x","z"}

\* stem_ing, lines 433-436: the word without "ing", or with "e" for "ing"
StemOfIng(self, lower, tag) ==
    IF ByteLen(lower) > 5 /\ is_known(self, DropLast(lower, 3), tag)
    THEN Some(DropLast(lower, 3))
    ELSE IF is_known(self, DropLast(lower, 3) \o <<"e">>, tag)
    THEN Some(DropLast(lower, 3) \o <<"e">>)
    ELSE None

\* stem_ing, lines 462-463
SuffixIng(self, base) ==
    IF ~base.ok THEN NoResult
    ELSE IF ~append_ing(self, base.ps).some THEN NoResult
    ELSE Found(append_ing(self, base.ps).v, base.rating)

\* stem_ing, lines 449-452: append_ing of the spelling of the candidate, with
\* the rating of its lookup
SpelledIng(spelled, base) ==
    IF ~spelled.some THEN NoResult
    ELSE IF ~base.ok THEN NoResult
    ELSE Found(spelled.v, base.rating)

\* stem_ing, lines 437-457: the candidate ends in a doubled consonant or "ck"
StemDoubled(self, stem_candidate, tag, stress, ctx) ==
    IF /\ is_known(self, stem_candidate, tag)
       /\ Len(stem_candidate) >= 2
       /\ \/ /\ LastChar(stem_candidate) = stem_candidate[Len(stem_candidate) - 1]
             /\ LastChar(stem_candidate) \in DoubledConsonants
          \/ /\ LastChar(stem_candidate) = "k"
             /\ stem_candidate[Len(stem_candidate) - 1] = "c"
    THEN SpelledIng(append_ing(self, stem_candidate),
                    lookup(self, stem_candidate, tag, stress, ctx))
    ELSE NoResult

StemIngOf(self, lower, stem, tag, stress, ctx) ==
    IF ByteLen(lower) < 5 \/ ~EndsWith(lower, <<"i","n","g">>) THEN NoResult
    ELSE IF stem.some THEN SuffixIng(self, StemLookup(self, stem, tag, stress, ctx))
    ELSE IF ByteLen(lower) > 5
    THEN IF ~StemIngSliceOk(lower) THEN Panicked
         ELSE StemDoubled(self, BytePrefix(lower, ByteLen(lower) - 4), tag, stress, ctx)
    ELSE NoResult

stem_ing(self, word, tag, stress, ctx) ==
    StemIngOf(self, ToLower(word), StemOfIng(self, ToLower(word), tag), tag, stress, ctx)

\* the byte lengths of the segments of word between dots (word.split('.'))
RECURSIVE DotSegmentLens(_, _)
DotSegmentLens(word, cur) ==
    IF word = <<>> THEN {cur}
    ELSE IF Head(word) = "." THEN {cur} \cup DotSegmentLens(Tail(word), 0)
    ELSE DotSegmentLens(Tail(word), cur + Utf8Len(Head(word)))

SetMax(S) == CHOOSE m \in S : \A x \in S : x <= m

WordIn(word, forms) == word \in forms

GoldSimple(self, key) ==
    IF key \in DOMAIN self.golds /\ self.golds[key].kind = "Simple"
    THEN Some(self.golds[key].ps) ELSE None

GoldTagged(self, key, tagkey) ==
    IF key \in DOMAIN self.golds /\ self.golds[key].kind = "Tagged"
    THEN MapGet(self.golds[key].map, tagkey) ELSE None

get_special_case(self, word, tag, stress, ctx) ==
    LET future_vowel == CtxFutureVowel(ctx) IN
    IF tag = "ADD" /\ IsSymbolWord(word, add_symbols)
    THEN lookup(self, add_symbols[word[1]], "NN", SomeStress(-1), ctx)
    ELSE IF IsSymbolWord(word, symbols)
    THEN lookup(self, symbols[word[1]], "NN", NoStress, ctx)
    ELSE IF /\ Contains(word, ".")
            /\ \A i \in 1..Len(word) : word[i] = "." \/ IsAlphabetic(word[i])
    THEN IF SetMax(DotSegmentLens(word, 0)) < 3 THEN get_nnp(self, word) ELSE NoResult
    ELSE IF WordIn(word, {<<"a">>, <<"A">>})
    THEN Found(IF tag = "DT" THEN <<"turna">> ELSE <<"PRI", "A">>, 4)
    ELSE IF WordIn(word, {<<"a","m">>, <<"A","m">>, <<"A","M">>})
    THEN IF TagStartsWith(tag, "NN") THEN get_nnp(self, word)
         ELSE IF /\ \/ ~ctx.some
                    \/ future_vowel = "none"
                    \/ word # <<"a","m">>
                    \/ (stress.some /\ stress.v > 0)
                 /\ GoldSimple(self, <<"a","m">>).some
         THEN Found(GoldSimple(self, <<"a","m">>).v, 4)
         ELSE Found(<<"turna", "m">>, 4)
    ELSE IF WordIn(word, {<<"a","n">>, <<"A","n">>, <<"A","N">>})
    THEN IF word = <<"A","N">> /\ TagStartsWith(tag, "NN") THEN get_nnp(self, word)
         ELSE Found(<<"turna", "n">>, 4)
    ELSE IF word = <<"I">> /\ tag = "PRP"
    THEN Found(<<"SEC", "I">>, 4)
    ELSE IF WordIn(word, {<<"b","y">>, <<"B","y">>, <<"B","Y">>}) /\ get_parent_tag(tag) = "ADV"
    THEN Found(<<"b", "PRI", "I">>, 4)
    ELSE IF \/ WordIn(word, {<<"t","o">>, <<"T","o">>})
            \/ (word = <<"T","O">> /\ tag \in {"TO", "IN"})
    THEN IF GoldSimple(self, <<"t","o">>).some
         THEN Found(CASE future_vowel = "none" -> GoldSimple(self, <<"t","o">>).v
                      [] future_vowel = "no" -> <<"t", "schwa">>
                      [] future_vowel = "yes" -> <<"t", "upsilon">>, 4)
         ELSE NoResult
    ELSE IF \/ WordIn(word, {<<"i","n">>, <<"I","n">>})
            \/ (word = <<"I","N">> /\ tag # "NNP")
    THEN Found((IF future_vowel = "none" \/ tag # "IN" THEN <<"PRI">> ELSE <<>>)
               \o <<"smallI", "n">>, 4)
    ELSE IF \/ WordIn(word, {<<"t","h","e">>, <<"T","h","e">>})
            \/ (word = <<"T","H","E">> /\ tag = "DT")
    THEN Found(IF future_vowel = "yes" THEN <<"eth", "i">> ELSE <<"eth", "schwa">>, 4)
    ELSE IF tag = "IN" /\ ToLower(word) \in {<<"v","s">>, <<"v","s",".">>}
    THEN lookup(self, <<"v","e","r","s","u","s">>, "NN", NoStress, ctx)
    ELSE IF WordIn(word, {<<"u","s","e","d">>, <<"U","s","e","d">>, <<"U","S","E","D">>})
    THEN IF /\ tag \in {"VBD", "JJ"}
            /\ ctx.some /\ ctx.future_to
            /\ GoldTagged(self, <<"u","s","e","d">>, "VBD").some
         THEN Found(GoldTagged(self, <<"u","s","e","d">>, "VBD").v, 4)
         ELSE IF GoldTagged(self, <<"u","s","e","d">>, "DEFAULT").some
         THEN Found(GoldTagged(self, <<"u","s","e","d">>, "DEFAULT").v, 4)
         ELSE NoResult
    ELSE NoResult

OptionOr(a, b) == IF a.some THEN a ELSE b

\* get_word, lines 662-672, and apply_rules: stem_s, stem_ed and stem_ing in
\* this order, the first result that is not None
Stems(self, word, tag, stress, ing_stress, ctx) ==
    OrElse(stem_s(self, word, tag, stress, ctx),
           OrElse(stem_ed(self, word, tag, stress, ctx),
                  stem_ing(self, word, tag, ing_stress, ctx)))

\* get_word, lines 622-632: the tests on the word that come before the tests
\* on its lower-case form
FoldsCase(self, word, tag) ==
    /\ ByteLen(word) > 1
    /\ \A i \in 1..Len(word) : word[i] = "'" \/ IsAlphabetic(word[i])
    /\ word # ToLower(word)
    /\ (tag # "NNP" \/ ByteLen(word) > 7)
    /\ word \notin DOMAIN self.golds
    /\ word \notin DOMAIN self.silvers
    /\ (word = ToUpper(word) \/ Tail(word) = ToLower(Tail(word)))

InDictionaries(self, word) == word \in DOMAIN self.golds \/ word \in DOMAIN self.silvers

\* get_word, lines 639-660: the word that is looked up, if any
KnownForm(self, current_word, tag) ==
    IF is_known(self, current_word, tag) THEN Some(current_word)
    ELSE IF /\ EndsWith(current_word, <<"s","'">>)
            /\ is_known(self, DropLast(current_word, 2), tag)
    THEN Some(DropLast(current_word, 2) \o <<"'","s">>)
    ELSE IF /\ EndsWith(current_word, <<"'">>)
            /\ is_known(self, DropLast(current_word, 1), tag)
    THEN Some(DropLast(current_word, 1))
    ELSE None

LookupOrStem(self, current_word, known, tag, stress, ctx) ==
    IF known.some THEN lookup(self, known.v, tag, stress, ctx)
    ELSE Stems(self, current_word, tag, stress, OptionOr(SomeStress(1), stress), ctx)

GetCurrentWord(self, current_word, tag, stress, ctx) ==
    LookupOrStem(self, current_word, KnownForm(self, current_word, tag), tag, stress, ctx)

\* get_word, lines 622-674: the case is folded when the lower-case form is in
\* a dictionary or has a stem; a panic of the stemmers is a panic of get_word
GetFolded(self, word, pre, dict, stemmed, tag, stress, ctx) ==
    IF pre /\ ~dict /\ stemmed.panic THEN Panicked
    ELSE GetCurrentWord(self, IF pre /\ (dict \/ stemmed.ok) THEN ToLower(word) ELSE word,
                        tag, stress, ctx)

get_word(self, word, tag, stress, ctx) ==
    OrElse(get_special_case(self, word, tag, stress, ctx),
           GetFolded(self, word, FoldsCase(self, word, tag),
                     InDictionaries(self, ToLower(word)),
                     Stems(self, ToLower(word), tag, stress, stress, ctx),
                     tag, stress, ctx))

\* English::apply_rules (languages/english.rs): the three stemmers without
\* stress and without context
apply_rules(word, tag, self) == Stems(self, word, tag, NoStress, NoStress, NoCtx)

(***************************************************************************)
(* Tokenizer (g2p.rs, tokenize and the subtoken regular expression)        *)
(***************************************************************************)
IsWhitespace(c) == c = " "

Apostrophes == {"'"}

\* the number of consecutive characters from position p on that satisfy Test
RECURSIVE RunLen(_, _, _)
RunLen(word, p, class) ==
    IF p > Len(word) THEN 0
    ELSE IF word[p] \in class THEN 1 + RunLen(word, p + 1, class)
    ELSE 0

IsApostrophe(c) == c \in Apostrophes

IsDigit(c) == c \in AsciiDigits

DashOrUnderscore == {"-", "_"}

IsDashOrUnderscore(c) == c \in DashOrUnderscore

IsSeparator(c) == c \in {",", "."}

CharAt(word, p) == IF p >= 1 /\ p <= Len(word) THEN word[p] ELSE "END"

\* one group \d?[,.]?\d at position p: its length, 0 when there is none
NumGroupLen(word, p) ==
    IF IsDigit(CharAt(word, p)) /\ IsSeparator(CharAt(word, p + 1)) /\ IsDigit(CharAt(word, p + 2))
    THEN 3
    ELSE IF IsDigit(CharAt(word, p)) /\ IsDigit(CharAt(word, p + 1)) THEN 2
    ELSE IF IsSeparator(CharAt(word, p)) /\ IsDigit(CharAt(word, p + 1)) THEN 2
    ELSE IF IsDigit(CharAt(word, p)) THEN 1
    ELSE 0

\* (?:\d?[,.]?\d)+ at position p
RECURSIVE NumGroupsLen(_, _)
NumGroupsLen(word, p) ==
    IF NumGroupLen(word, p) = 0 THEN 0
    ELSE NumGroupLen(word, p) + NumGroupsLen(word, p + NumGroupLen(word, p))

\* (?:^-)?(?:\d?[,.]?\d)+ at position p
NumberLen(word, p) ==
    IF p = 1 /\ CharAt(word, 1) = "-" /\ NumGroupsLen(word, 2) > 0
    THEN 1 + NumGroupsLen(word, 2)
    ELSE NumGroupsLen(word, p)

\* \p{L}+(?:'\p{L}+)* at position p
RECURSIVE LetterRunsLen(_, _)
LetterRunsLen(word, p) ==
    LET n == RunLen(word, p, AlphabeticChars) IN
    IF n = 0 THEN 0
    ELSE IF IsApostrophe(CharAt(word, p + n)) /\ IsAlphabetic(CharAt(word, p + n + 1))
    THEN n + 1 + LetterRunsLen(word, p + n + 1)
    ELSE n

\* the length of the subtoken that starts at position p of a word: the
\* alternatives of the regular expression in their order; 0 when none matches
SubtokenLen(word, p) ==
    IF p = 1 /\ IsApostrophe(word[p]) THEN RunLen(word, p, Apostrophes)
    ELSE IF NumberLen(word, p) > 0 THEN NumberLen(word, p)
    ELSE IF IsDashOrUnderscore(word[p]) THEN RunLen(word, p, DashOrUnderscore)
    ELSE IF RunLen(word, p, Apostrophes) >= 2 THEN RunLen(word, p, Apostrophes)
    ELSE IF IsAlphabetic(word[p]) THEN LetterRunsLen(word, p)
    ELSE IF ~(\/ IsWhitespace(word[p]) \/ IsDashOrUnderscore(word[p])
              \/ IsDigit(word[p]) \/ IsAlphabetic(word[p]) \/ IsApostrophe(word[p]))
    THEN 1
    ELSE IF IsApostrophe(word[p]) /\ p + RunLen(word, p, Apostrophes) - 1 = Len(word)
    THEN RunLen(word, p, Apostrophes)
    ELSE 0

\* find_iter: the matches from left to right, a position without a match being
\* skipped
RECURSIVE Subtokens(_, _)
Subtokens(word, p) ==
    IF p > Len(word) THEN <<>>
    ELSE IF SubtokenLen(word, p) = 0 THEN Subtokens(word, p + 1)
    ELSE <<SubSeq(word, p, p + SubtokenLen(word, p) - 1)>>
         \o Subtokens(word, p + SubtokenLen(word, p))

\* the maximal runs of non-whitespace characters of a text
RECURSIVE SplitWhitespace(_, _)
SplitWhitespace(text, cur) ==
    IF text = <<>> THEN (IF cur = <<>> THEN <<>> ELSE <<cur>>)
    ELSE IF IsWhitespace(Head(text))
    THEN (IF cur = <<>> THEN <<>> ELSE <<cur>>) \o SplitWhitespace(Tail(text), <<>>)
    ELSE SplitWhitespace(Tail(text), cur \o <<Head(text)>>)

\* MToken::new(text, "NN", " ")
\* a faulty variant of MToken: the token has no trailing whitespace
MTokenNoSpace(text) == [text |-> text, tag |-> "NN", whitespace |-> <<>>, phonemes |-> None]

MToken(text) == [text |-> text, tag |-> "NN", whitespace |-> <<" ">>, phonemes |-> None]

RECURSIVE TokenizeWords(_)
TokenizeWords(words) ==
    IF words = <<>> THEN <<>>
    ELSE LET subs == Subtokens(Head(words), 1)
         IN  (IF subs = <<>> THEN <<MToken(Head(words))>>
              ELSE [k \in 1..Len(subs) |-> MToken(subs[k])])
             \o TokenizeWords(Tail(words))

tokenize(text) == TokenizeWords(SplitWhitespace(text, <<>>))

(***************************************************************************)
(* Number expansion (g2p.rs, is_number and convert_number)                 *)
(***************************************************************************)
DigitValue(c) == CHOOSE v \in 0..9 : <<"0","1","2","3","4","5","6","7","8","9">>[v + 1] = c

RECURSIVE DigitsValue(_)
DigitsValue(ds) ==
    IF ds = <<>> THEN 0 ELSE 10 * DigitsValue(DropLast(ds, 1)) + DigitValue(LastChar(ds))

\* str::parse::<i64>: an optional sign and one or more ASCII digits; numbers
\* of more than 18 digits are taken to overflow
ParseI64(s) ==
    LET signed == s # <<>> /\ Head(s) \in {"-", "+"}
        digits == IF signed THEN Tail(s) ELSE s
    IN  IF digits = <<>> \/ Len(digits) > 18 \/ \E i \in 1..Len(digits) : ~IsDigit(digits[i])
        THEN [ok |-> FALSE, v |-> 0]
        ELSE [ok |-> TRUE,
              v |-> IF signed /\ Head(s) = "-" THEN 0 - DigitsValue(digits)
                    ELSE DigitsValue(digits)]

is_number(word) == ParseI64(Remove(word, ",")).ok

\* Num2Words::new(val).to_words() of the num2words crate, for values below
\* one million: "twenty-one", "one hundred twenty-one", "minus five"
RECURSIVE CardinalWords(_)
CardinalWords(n) ==
    IF n < 20 THEN OnesWords[n + 1]
    ELSE IF n < 100
    THEN TensWords[(n \div 10) - 1]
         \o (IF n % 10 = 0 THEN <<>> ELSE <<"-">> \o OnesWords[(n % 10) + 1])
    ELSE IF n < 1000
    THEN OnesWords[(n \div 100) + 1] \o <<" ","h","u","n","d","r","e","d">>
         \o (IF n % 100 = 0 THEN <<>> ELSE <<" ">> \o CardinalWords(n % 100))
    ELSE CardinalWords(n \div 1000) \o <<" ","t","h","o","u","s","a","n","d">>
         \o (IF n % 1000 = 0 THEN <<>> ELSE <<" ">> \o CardinalWords(n % 1000))

NumberLimit == 1000000

convert_number(word) ==
    LET val == ParseI64(Remove(word, ",")) IN
    IF ~val.ok THEN word
    ELSE IF val.v >= NumberLimit \/ val.v <= 0 - NumberLimit THEN word
    ELSE IF val.v < 0 THEN <<"m","i","n","u","s"," ">> \o CardinalWords(0 - val.v)
    ELSE CardinalWords(val.v)

(***************************************************************************)
(* Pipeline (g2p.rs, G2P::g2p).  A call of g2p is a frame; the recursive   *)
(* calls of g2p are frames pushed on the stack.  The right-to-left loop    *)
(* over the tokens takes three steps per token: the context of the token   *)
(* is set from the next token, the token is resolved, the context of the   *)
(* previous token is updated from the phonemes of the token.               *)
(***************************************************************************)
unk == <<"UNK">>

\* bound of the model: the input text has at most MaxWords words
MaxWords == 2

\* bound of the model: the depth of nested g2p calls the model follows
MaxDepth == 7

\* the words an input text of the model is made of
Words ==
    { <<"t","h","e">>, <<"u">>, <<"%">>, <<".">>, <<"5">>, <<"2","1">>,
      <<"-","5">>, <<"x","q">>, <<"eacute">>, <<"a","eacute","i","n","g">>,
      <<"c","A","T","S">>, <<"cjk">> }

Texts == {Join(ws, <<" ">>) : ws \in UNION {[1..k -> Words] : k \in 0..MaxWords}}

\* the tags the tagger gives in the model: the tagger's weights and its
\* override table are data, so that every token may get every tag
PipelineTags == {"NN", "NNP"}

consonants ==
    {"b", "d", "f", "h", "j", "k", "l", "m", "n", "p", "s", "t", "v", "w", "z",
     "eth", "eng", "scriptg", "turnr", "flap", "esh", "ezh", "dezh", "tesh", "theta"}

\* the class of the first character of ps that is a vowel or a consonant
RECURSIVE PhonemeClass(_)
PhonemeClass(ps) ==
    IF ps = <<>> THEN "none"
    ELSE IF Head(ps) \in vowels THEN "yes"
    ELSE IF Head(ps) \in consonants THEN "no"
    ELSE PhonemeClass(Tail(ps))

\* the class of the first letter of the next word
OrthographicClass(next_word) ==
    IF next_word = <<>> THEN "none"
    ELSE IF ToLowerChar(Head(next_word)) \in {"a", "e", "i", "o", "u"} THEN "yes"
    ELSE IF IsAlphabetic(Head(next_word)) THEN "no"
    ELSE "none"

NormalizeChar(c) ==
    IF c = "eacute" THEN "e"
    ELSE IF c = "emdash" THEN " "
    ELSE c

Normalize(word) == [k \in 1..Len(word) |-> NormalizeChar(word[k])]

\* a faulty variant of IsPunctuationChar: only the dashes of the second test
IsDashPunctuation(c) == c \in {"emdash"}

IsPunctuationChar(c) == c \in AsciiPunct \cup {"emdash"}

\* word.split('-').filter(|s| !s.is_empty())
RECURSIVE SplitHyphen(_, _)
SplitHyphen(word, cur) ==
    IF word = <<>> THEN (IF cur = <<>> THEN <<>> ELSE <<cur>>)
    ELSE IF Head(word) = "-"
    THEN (IF cur = <<>> THEN <<>> ELSE <<cur>>) \o SplitHyphen(Tail(word), <<>>)
    ELSE SplitHyphen(Tail(word), cur \o <<Head(word)>>)

CapStress(word) ==
    IF word = ToLower(word) THEN NoStress
    ELSE IF word = ToUpper(word) THEN SomeStress(4)
    ELSE SomeStress(1)

Direct(ps, how) == [kind |-> "direct", ps |-> ps, calls |-> <<>>, how |-> how]

Calls(args, how) == [kind |-> "calls", ps |-> <<>>, calls |-> args, how |-> how]

PanicOutcome == [kind |-> "panic", ps |-> <<>>, calls |-> <<>>, how |-> "panic"]

\* the last resort for a token nothing else resolved
\* a faulty variant of LastResort: a single character is spelled character
\* by character too, by a call of g2p on itself
LastResortRespell(word) == Calls([k \in 1..Len(word) |-> <<word[k]>>], "chars")

LastResort(word) ==
    IF Len(word) > 1 THEN Calls([k \in 1..Len(word) |-> <<word[k]>>], "chars")
    ELSE IF Normalize(word) # word THEN Calls(<<Normalize(word)>>, "normalized")
    ELSE IF Len(word) = 1 /\ IsPunctuationChar(word[1]) THEN Direct(<<" ">>, "punct")
    ELSE Direct(unk, "unknown")

\* lines 183-197: the rules of the language, then the last resort
ResolveByRules(word, rules) ==
    IF rules.panic THEN PanicOutcome
    ELSE IF rules.ok THEN Direct(rules.ps, "rules")
    ELSE LastResort(word)

\* lines 165-180: a word with a hyphen is split, a number is spoken
ResolveBySpelling(word, spoken, rules) ==
    IF Contains(word, "-") /\ ByteLen(word) > 1
    THEN Calls(SplitHyphen(word, <<>>), "hyphen")
    ELSE IF is_number(word) /\ spoken # word THEN Calls(<<spoken>>, "number")
    ELSE ResolveByRules(word, rules)

\* lines 156-162: the lexicon
ResolveByLexicon(found, otherwise) ==
    IF found.panic THEN PanicOutcome
    ELSE IF found.ok THEN Direct(found.ps, "lexicon")
    ELSE otherwise

\* what the resolution of a token without phonemes does: it sets the phonemes
\* at once, or it calls g2p on a list of strings and joins the results with
\* spaces, or it panics
ResolveOutcome(self, word, tag, context) ==
    ResolveByLexicon(get_word(self, word, tag, CapStress(word), SomeCtx(context)),
                     ResolveBySpelling(word, convert_number(word),
                                       apply_rules(word, tag, self)))

NewFrame(text) ==
    LET Frame(tokens) ==
            [text |-> text,
             tokens |-> tokens,
             contexts |-> [k \in 1..Len(tokens) |-> DefaultContext],
             via |-> [k \in 1..Len(tokens) |-> "unresolved"],
             i |-> Len(tokens),
             pc |-> "tag",
             pending |-> <<>>,
             acc |-> <<>>,
             how |-> "none"]
    IN  Frame(tokenize(text))

Depth == Len(stack)

Top == stack[Depth]

SetTop(frame) == [stack EXCEPT ![Depth] = frame]

Running == status = "running" /\ Depth > 0

\* the engines of the model: Lexicon::new(lang) on the dictionary data
Lexicons ==
    { [british |-> FALSE, data |-> "full"],
      [british |-> FALSE, data |-> "sparse"],
      [british |-> TRUE, data |-> "full"] }

EmptyResult == [ps |-> <<>>, tokens |-> <<>>, via |-> <<>>]

Init ==
    /\ lexicon \in Lexicons
    /\ \E text \in Texts : stack = <<NewFrame(text)>>
    /\ status = "running"
    /\ result = EmptyResult
    /\ probe = [fn |-> "g2p", text |-> stack[1].text]

\* lines 100-121: the tagger gives every token a tag
TagTokensFrom(tagset) ==
    /\ Running
    /\ Top.pc = "tag"
    /\ \E tags \in [1..Len(Top.tokens) -> tagset] :
           stack' = SetTop([Top EXCEPT
               !.tokens = [k \in 1..Len(Top.tokens) |-> [Top.tokens[k] EXCEPT !.tag = tags[k]]],
               !.pc = IF Len(Top.tokens) = 0 THEN "return" ELSE "context"])
    /\ UNCHANGED <<lexicon, status, result, probe>>

TagTokens == TagTokensFrom(PipelineTags)

\* a faulty variant of ContextFromNext: future_to is never set
ContextWithoutTo(frame) ==
    LET i == frame.i
        next_word == frame.tokens[i + 1].text
        old == frame.contexts[i]
    IN  IF i < Len(frame.tokens)
        THEN [future_vowel |-> IF OrthographicClass(next_word) # "none"
                               THEN OrthographicClass(next_word)
                               ELSE old.future_vowel,
              future_to |-> old.future_to]
        ELSE old

\* lines 137-153: the context of token i from the text of token i+1
ContextFromNext(frame) ==
    LET i == frame.i
        next_word == frame.tokens[i + 1].text
        old == frame.contexts[i]
    IN  IF i < Len(frame.tokens)
        THEN [future_vowel |-> IF OrthographicClass(next_word) # "none"
                               THEN OrthographicClass(next_word)
                               ELSE old.future_vowel,
              future_to |-> IF ToLower(next_word) = <<"t","o">> THEN TRUE ELSE old.future_to]
        ELSE old

BuildContext ==
    /\ Running
    /\ Top.pc = "context"
    /\ stack' = SetTop([Top EXCEPT !.contexts[Top.i] = ContextFromNext(Top),
                                   !.pc = "resolve"])
    /\ UNCHANGED <<lexicon, status, result, probe>>

\* the token i of the frame on top gets the outcome of its resolution
Resolved(i, out) ==
    IF Top.tokens[i].phonemes.some
    THEN /\ stack' = SetTop([Top EXCEPT !.pc = "update"])
         /\ status' = status
    ELSE IF out.kind = "panic"
    THEN /\ stack' = stack
         /\ status' = "panic"
    ELSE IF out.kind = "direct"
    THEN /\ stack' = SetTop([Top EXCEPT !.tokens[i].phonemes = Some(out.ps),
                                        !.via[i] = out.how,
                                        !.pc = "update"])
         /\ status' = status
    ELSE /\ stack' = SetTop([Top EXCEPT !.pending = out.calls,
                                        !.acc = <<>>,
                                        !.how = out.how,
                                        !.pc = "call"])
         /\ status' = status

\* lines 156-232: the token is resolved, or the recursive calls are prepared
Resolve ==
    /\ Running
    /\ Top.pc = "resolve"
    /\ Resolved(Top.i, ResolveOutcome(TheLexicon, Top.tokens[Top.i].text,
                                      Top.tokens[Top.i].tag, Top.contexts[Top.i]))
    /\ UNCHANGED <<lexicon, result, probe>>

\* lines 170, 177, 194, 216: the next recursive call of g2p
Call ==
    /\ Running
    /\ Top.pc = "call"
    /\ Top.pending # <<>>
    /\ Depth < MaxDepth
    /\ stack' = Append(stack, NewFrame(Head(Top.pending)))
    /\ UNCHANGED <<lexicon, status, result, probe>>

\* lines 173, 178, 197, 217: the results of the calls joined with spaces
JoinResults ==
    /\ Running
    /\ Top.pc = "call"
    /\ Top.pending = <<>>
    /\ stack' = SetTop([Top EXCEPT !.tokens[Top.i].phonemes = Some(Join(Top.acc, <<" ">>)),
                                   !.via[Top.i] = Top.how,
                                   !.pc = "update"])
    /\ UNCHANGED <<lexicon, status, result, probe>>

\* lines 235-249: the context of token i-1 from the phonemes of token i
ContextFromPhonemes(frame) ==
    LET i == frame.i
        old == frame.contexts[i - 1]
        class == PhonemeClass(frame.tokens[i].phonemes.v)
    IN  IF frame.tokens[i].phonemes.some /\ class # "none"
        THEN [old EXCEPT !.future_vowel = class]
        ELSE old

UpdateContext ==
    /\ Running
    /\ Top.pc = "update"
    /\ stack' = SetTop(
           IF Top.i > 1
           THEN [Top EXCEPT !.contexts[Top.i - 1] = ContextFromPhonemes(Top),
                            !.i = Top.i - 1,
                            !.pc = "context"]
           ELSE [Top EXCEPT !.i = 0, !.pc = "return"])
    /\ UNCHANGED <<lexicon, status, result, probe>>

\* a faulty variant of TokenOutput: the whitespace of the token is dropped
TokenOutputNoWhitespace(tk) == IF tk.phonemes.some THEN tk.phonemes.v ELSE unk

\* lines 252-257: the output string of a call
TokenOutput(tk) == (IF tk.phonemes.some THEN tk.phonemes.v ELSE unk) \o tk.whitespace

OutputString(tokens) == Concat([k \in 1..Len(tokens) |-> TokenOutput(tokens[k])])

Return ==
    /\ Running
    /\ Top.pc = "return"
    /\ IF Depth = 1
       THEN /\ result' = [ps |-> OutputString(Top.tokens), tokens |-> Top.tokens, via |-> Top.via]
            /\ status' = "done"
            /\ stack' = <<>>
       ELSE LET caller == stack[Depth - 1] IN
            /\ stack' = [SubSeq(stack, 1, Depth - 1) EXCEPT ![Depth - 1] =
                   [caller EXCEPT !.acc = Append(caller.acc, OutputString(Top.tokens)),
                                  !.pending = Tail(caller.pending)]]
            /\ UNCHANGED <<status, result>>
    /\ UNCHANGED <<lexicon, probe>>

Next ==
    \/ TagTokens
    \/ BuildContext
    \/ Resolve
    \/ Call
    \/ JoinResults
    \/ UpdateContext
    \/ Return

Spec == Init /\ [][Next]_vars

\* the states in which a call of g2p can take its next step: ENABLED <<Next>>_vars
\* written as a state predicate (every position of a running call has a
\* step; a recursive call needs room on the stack the model follows)
NextEnabled ==
    /\ Running
    /\ (Top.pc = "call" /\ Top.pending # <<>>) => Depth < MaxDepth

\* weak fairness of Next, WF_vars(Next), with its enabling condition written
\* out: g2p is sequential code, and a call that can take a step takes it
Progress == []<>(~NextEnabled) \/ []<><<Next>>_vars

LiveSpec == Spec /\ Progress

(***************************************************************************)
(* Harness of the stress engine: apply_stress is applied to a phoneme      *)
(* string, and once more to its own result.                                *)
(***************************************************************************)
\* bound of the model: the length of the phoneme strings given to apply_stress
MaxPhonemes == 4

StressAlphabet == {"PRI", "SEC", "a", "i", "b"}

PhonemeStrings == UNION {[1..k -> StressAlphabet] : k \in 0..MaxPhonemes}

\* no stress, and -2.0, -1.5, -1.0, -0.5, 0.0, 0.5, 1.0, 2.0
StressValues == {NoStress} \cup {SomeStress(v) : v \in {-4, -3, -2, -1, 0, 1, 2, 4}}

Idle ==
    /\ stack = <<>>
    /\ status = "idle"
    /\ result = EmptyResult

InitStress ==
    /\ lexicon = [british |-> FALSE, data |-> "full"]
    /\ Idle
    /\ \E ps \in PhonemeStrings, stress \in StressValues :
           probe = [fn |-> "apply_stress", ps |-> ps, stress |-> stress,
                    out |-> <<>>, again |-> <<>>, step |-> 0]

ApplyStress ==
    /\ probe.fn = "apply_stress"
    /\ probe.step = 0
    /\ probe' = [probe EXCEPT !.out = apply_stress(probe.ps, probe.stress), !.step = 1]
    /\ UNCHANGED <<lexicon, stack, status, result>>

ApplyStressAgain ==
    /\ probe.fn = "apply_stress"
    /\ probe.step = 1
    /\ probe' = [probe EXCEPT !.again = apply_stress(probe.out, probe.stress), !.step = 2]
    /\ UNCHANGED <<lexicon, stack, status, result>>

NextStress == ApplyStress \/ ApplyStressAgain

StressSpec == InitStress /\ [][NextStress]_vars

(***************************************************************************)
(* Harness of the lexicon: is_known and get_word are applied to a word, a  *)
(* tag and a context, without stress.                                      *)
(***************************************************************************)
ProbeWords ==
    { <<"c","a","t">>, <<"C","A","T">>, <<"c","a","t","s">>, <<"c","A","T","S">>,
      <<"a","B">>, <<"q">>, <<"Q">>, <<"x">>, <<"h","i">>, <<"%">>, <<"t","h","e">>,
      <<"u","s","e","d">>, <<"x","q">>, <<"X","Q">>, <<"5">>, <<"eacute">>,
      <<"p","l","a","y","i","n","g">>, <<"c","a","t","s","'">> }

ProbeContexts ==
    {NoCtx} \cup {SomeCtx(c) : c \in [future_vowel : {"none", "yes", "no"}, future_to : BOOLEAN]}

InitLex ==
    /\ lexicon \in Lexicons
    /\ Idle
    /\ \E word \in ProbeWords, tag \in Tags, ctx \in ProbeContexts :
           probe = [fn |-> "get_word", word |-> word, tag |-> tag, ctx |-> ctx,
                    known |-> FALSE, out |-> NoResult, step |-> 0]

ProbeIsKnown ==
    /\ probe.fn = "get_word"
    /\ probe.step = 0
    /\ probe' = [probe EXCEPT !.known = is_known(TheLexicon, probe.word, probe.tag),
                              !.step = 1]
    /\ UNCHANGED <<lexicon, stack, status, result>>

ProbeGetWord ==
    /\ probe.fn = "get_word"
    /\ probe.step = 1
    /\ probe' = [probe EXCEPT
           !.out = get_word(TheLexicon, probe.word, probe.tag, NoStress, probe.ctx),
           !.step = 2]
    /\ UNCHANGED <<lexicon, stack, status, result>>

NextLex == ProbeIsKnown \/ ProbeGetWord

LexSpec == InitLex /\ [][NextLex]_vars

(***************************************************************************)
(* Properties                                                              *)
(***************************************************************************)
Done == status = "done"

\* C1: g2p returns normally for every input: no call reachable from g2p
\* panics, also for tokens with multi-byte characters.
G2PNeverPanics == status # "panic"

\* C2: g2p terminates for every finite input: every run of g2p stops, and
\* no chain of recursive calls goes on for ever
G2PTerminates == <>(status # "running")

\* a call of g2p has returned after its recursive calls of every kind were made
RecursionWitness ==
    /\ Done
    /\ \E k \in 1..Len(result.via) : result.via[k] = "hyphen"
    /\ \E k \in 1..Len(result.via) : result.via[k] = "chars"

\* C3: the phoneme string returned by g2p is the concatenation, in token
\* order, of phonemes followed by whitespace over the returned tokens, and
\* every returned token has its phonemes present.
OutputIsConcatenation ==
    Done =>
        /\ \A k \in 1..Len(result.tokens) : result.tokens[k].phonemes.some
        /\ result.ps = Concat([k \in 1..Len(result.tokens) |->
                                  result.tokens[k].phonemes.v \o result.tokens[k].whitespace])

ConcatenationWitness ==
    /\ Done
    /\ Len(result.tokens) >= 2
    /\ \E k \in 1..Len(result.via) : result.via[k] = "unknown"
    /\ \E k \in 1..Len(result.via) : result.via[k] = "number"

\* the number of whitespace-separated fields of a string
RECURSIVE FieldCountFrom(_, _)
FieldCountFrom(s, inField) ==
    IF s = <<>> THEN 0
    ELSE IF IsWhitespace(Head(s)) THEN FieldCountFrom(Tail(s), FALSE)
    ELSE (IF inField THEN 0 ELSE 1) + FieldCountFrom(Tail(s), TRUE)

FieldCount(s) == FieldCountFrom(s, FALSE)

IsPunctuationToken(tk) == \A k \in 1..Len(tk.text) : IsPunctuationChar(tk.text[k])

WordTokenCount(tokens) ==
    Cardinality({k \in 1..Len(tokens) : ~IsPunctuationToken(tokens[k])})

SpokenAsSeveralWords(how) == how \in {"number", "hyphen", "chars"}

\* a punctuation token that the lexicon speaks as a word, as "%" is
SpokenSymbol(tk, how) == IsPunctuationToken(tk) /\ how = "lexicon"

\* C4 as amended: the number of fields of the output is the sum of the
\* numbers of fields of the tokens' phonemes; it equals the number of tokens
\* that are not punctuation when no token is expanded as a number, split at
\* hyphens or spelled character by character, and no punctuation token is
\* spoken as a word by the lexicon.
RECURSIVE SumFields(_)
SumFields(tokens) ==
    IF tokens = <<>> THEN 0
    ELSE FieldCount(Head(tokens).phonemes.v) + SumFields(Tail(tokens))

FutureVowelIsPhonemic ==
    \A d \in 1..Depth :
        LET f == stack[d] IN
        (/\ f.pc = "resolve"
         /\ f.i < Len(f.tokens)
         /\ PhonemeClass(f.tokens[f.i + 1].phonemes.v) # "none")
            => f.contexts[f.i].future_vowel = PhonemeClass(f.tokens[f.i + 1].phonemes.v)

\* C6: if is_known(w) then get_word(w, tag, None, ctx) returns phonemes, for
\* every word, tag and context.
KnownWordsResolve ==
    (probe.fn = "get_word" /\ probe.step = 2 /\ probe.known) => probe.out.ok

\* C7: a word of several characters that the lexicon, hyphen splitting,
\* number expansion and the language rules do not resolve is phonemized by the
\* fallback phonemizer and is not spelled letter by letter.
UnresolvedWordsUseFallback ==
    Done =>
        \A k \in 1..Len(result.tokens) :
            (/\ Len(result.tokens[k].text) > 1
             /\ result.via[k] \notin {"lexicon", "hyphen", "number", "rules"})
                => result.via[k] = "fallback"

\* the premise of C8: the gold dictionary resolves every single ASCII letter
\* in both cases, and the words of number expansion
ExpansionWords ==
    SeqToSet(OnesWords) \cup SeqToSet(TensWords)
    \cup {<<"h","u","n","d","r","e","d">>, <<"t","h","o","u","s","a","n","d">>,
          <<"m","i","n","u","s">>}

GoldResolves(word) ==
    /\ word \in DOMAIN golds
    /\ \A tag \in Tags, ctx \in ProbeContexts : resolve_phonemes(golds[word], tag, ctx).some

GoldResolvesLettersAndNumbers ==
    /\ \A c \in AsciiLetters : GoldResolves(<<c>>)
    /\ \A w \in ExpansionWords : GoldResolves(w)

IsAsciiText(text) ==
    \A k \in 1..Len(text) :
        text[k] \in AsciiLetters \cup AsciiDigits \cup AsciiPunct \cup {" "}

\* C8: for an input of ASCII letters, digits, punctuation and whitespace the
\* output of g2p does not contain the unknown sentinel, provided the gold
\* dictionary resolves every single ASCII letter in both cases and the words
\* of number expansion.
AsciiInputHasNoSentinel ==
    (Done /\ probe.fn = "g2p" /\ IsAsciiText(probe.text) /\ GoldResolvesLettersAndNumbers)
        => ~Contains(result.ps, unk[1])

AsciiWitness ==
    /\ Done
    /\ probe.fn = "g2p"
    /\ IsAsciiText(probe.text)
    /\ GoldResolvesLettersAndNumbers
    /\ \E k \in 1..Len(result.via) : result.via[k] = "chars"
    /\ \E k \in 1..Len(result.via) : result.via[k] = "punct"

HasNoStressMark(ps) == ~Contains(ps, primary) /\ ~Contains(ps, secondary)

\* C9: stripping stress is idempotent: apply_stress(apply_stress(ps, -2), -2)
\* equals apply_stress(ps, -2), and the result has no stress mark.
StripIsIdempotent ==
    (probe.fn = "apply_stress" /\ probe.step = 2 /\ probe.stress = SomeStress(-4))
        => probe.again = probe.out /\ HasNoStressMark(probe.out)

StripWitness ==
    /\ probe.fn = "apply_stress"
    /\ probe.step = 2
    /\ probe.stress = SomeStress(-4)
    /\ Contains(probe.ps, primary)
    /\ Contains(probe.ps, secondary)
    /\ HasVowel(probe.ps)

CountOf(s, c) == Cardinality({k \in 1..Len(s) : s[k] = c})

FirstVowelIndex(ps) ==
    CHOOSE j \in 1..Len(ps) : ps[j] \in vowels /\ \A k \in 1..(j - 1) : ps[k] \notin vowels

\* C10: for ps with a vowel and without stress mark, apply_stress(ps, 2) has
\* exactly one primary stress mark and no secondary one, and the primary mark
\* is immediately before the first vowel of ps.
PrimaryBeforeFirstVowel ==
    (/\ probe.fn = "apply_stress"
     /\ probe.step >= 1
     /\ probe.stress = SomeStress(4)
     /\ HasVowel(probe.ps)
     /\ HasNoStressMark(probe.ps))
        => LET v == FirstVowelIndex(probe.ps) IN
           /\ CountOf(probe.out, primary) = 1
           /\ CountOf(probe.out, secondary) = 0
           /\ probe.out = SubSeq(probe.ps, 1, v - 1) \o <<primary>>
                          \o SubSeq(probe.ps, v, Len(probe.ps))

PrimaryWitness ==
    /\ probe.fn = "apply_stress"
    /\ probe.step >= 1
    /\ probe.stress = SomeStress(4)
    /\ HasNoStressMark(probe.ps)
    /\ Len(probe.ps) >= 3
    /\ probe.ps[1] \notin vowels
    /\ probe.ps[2] \in vowels
    /\ probe.ps[3] \in vowels

(***************************************************************************)
(* Harness of restress: restress is applied to a phoneme string, and once  *)
(* more to its own result.                                                 *)
(***************************************************************************)
InitRestress ==
    /\ lexicon = [british |-> FALSE, data |-> "full"]
    /\ Idle
    /\ \E ps \in PhonemeStrings :
           probe = [fn |-> "restress", ps |-> ps, out |-> <<>>, again |-> <<>>, step |-> 0]

Restress ==
    /\ probe.fn = "restress"
    /\ probe.step = 0
    /\ probe' = [probe EXCEPT !.out = restress(probe.ps), !.step = 1]
    /\ UNCHANGED <<lexicon, stack, status, result>>

RestressAgain ==
    /\ probe.fn = "restress"
    /\ probe.step = 1
    /\ probe' = [probe EXCEPT !.again = restress(probe.out), !.step = 2]
    /\ UNCHANGED <<lexicon, stack, status, result>>

NextRestress == Restress \/ RestressAgain

RestressSpec == InitRestress /\ [][NextRestress]_vars

\* every stress mark of ps that has a vowel to its right has only stress
\* marks between itself and the next vowel
MarksPrecedeVowels(ps) ==
    \A i \in 1..Len(ps), j \in 1..Len(ps) :
        (/\ IsStressMark(ps[i])
         /\ i < j
         /\ ps[j] \in vowels
         /\ \A k \in (i + 1)..(j - 1) : ps[k] \notin vowels)
            => \A k \in (i + 1)..(j - 1) : IsStressMark(ps[k])

\* C11: restress(restress(ps)) equals restress(ps) for every phoneme string
\* ps, and in restress(ps) every stress mark that has a vowel to its right is
\* separated from the next vowel by stress marks only.
RestressIsIdempotent ==
    (probe.fn = "restress" /\ probe.step = 2)
        => probe.again = probe.out /\ MarksPrecedeVowels(probe.out)

RestressWitness ==
    /\ probe.fn = "restress"
    /\ probe.step = 2
    /\ CountOf(probe.ps, primary) + CountOf(probe.ps, secondary) >= 2
    /\ HasVowel(probe.ps)
    /\ ~MarksPrecedeVowels(probe.ps)
    /\ IsStressMark(probe.ps[Len(probe.ps)])

(***************************************************************************)
(* Harness of the suffix rules: append_s, append_ed and append_ing are     *)
(* applied to a stem of phonemes, in both variants of the language.        *)
(***************************************************************************)
StemAlphabet == {"t", "d", "s", "i", "schwa", "len"}

StemStrings == UNION {[1..k -> StemAlphabet] : k \in 0..MaxPhonemes}

InitAppend ==
    /\ lexicon \in {l \in Lexicons : l.data = "full"}
    /\ Idle
    /\ \E stem \in StemStrings, suffix \in {"s", "ed", "ing"} :
           probe = [fn |-> "append", suffix |-> suffix, stem |-> stem,
                    out |-> None, step |-> 0]

AppendS ==
    /\ probe.fn = "append"
    /\ probe.suffix = "s"
    /\ probe.step = 0
    /\ probe' = [probe EXCEPT !.out = Some(append_s(TheLexicon, probe.stem)), !.step = 1]
    /\ UNCHANGED <<lexicon, stack, status, result>>

AppendEd ==
    /\ probe.fn = "append"
    /\ probe.suffix = "ed"
    /\ probe.step = 0
    /\ probe' = [probe EXCEPT !.out = Some(append_ed(TheLexicon, probe.stem)), !.step = 1]
    /\ UNCHANGED <<lexicon, stack, status, result>>

AppendIng ==
    /\ probe.fn = "append"
    /\ probe.suffix = "ing"
    /\ probe.step = 0
    /\ probe' = [probe EXCEPT !.out = append_ing(TheLexicon, probe.stem), !.step = 1]
    /\ UNCHANGED <<lexicon, stack, status, result>>

NextAppend == AppendS \/ AppendEd \/ AppendIng

AppendSpec == InitAppend /\ [][NextAppend]_vars

\* &stem[..stem.len() - last.len_utf8()] of the flapping branches: the offset
\* is a character boundary
FlapSliceOk(stem) == IsCharBoundary(stem, ByteLen(stem) - Utf8Len(LastChar(stem)))

\* the stem takes a flapping branch of the US variant
IsFlapped(stem) ==
    /\ Len(stem) >= 2
    /\ LastChar(stem) = "t"
    /\ stem[Len(stem) - 1] \in US_TAUS

\* the result is the stem, or the stem without its last character, followed
\* by a suffix that is not empty
ExtendsStem(out, stem) ==
    \/ Len(out) > Len(stem) /\ StartsWith(out, stem)
    \/ Len(out) >= Len(stem) /\ StartsWith(out, DropLast(stem, 1))

\* C12: append_s, append_ed and append_ing return a result for every stem
\* that is not empty, in both variants, but for append_ing in the British
\* variant on a stem that ends in schwa or in the length mark; the slices of
\* the flapping branches of the US variant are taken at character boundaries.
AppendIsTotal ==
    (probe.fn = "append" /\ probe.step = 1 /\ probe.stem # <<>>)
        => /\ FlapSliceOk(probe.stem)
           /\ probe.out.some <=>
                  ~(/\ probe.suffix = "ing"
                    /\ british
                    /\ LastChar(probe.stem) \in {"schwa", "len"})
           /\ probe.out.some => ExtendsStem(probe.out.v, probe.stem)

AppendWitness ==
    /\ probe.fn = "append"
    /\ probe.step = 1
    /\ probe.suffix = "ing"
    /\ ~british
    /\ IsFlapped(probe.stem)
    /\ Utf8Len(probe.stem[Len(probe.stem) - 1]) = 2
    /\ Contains(probe.out.v, "flap")

(***************************************************************************)
(* Harness of grow_dictionary: a loaded dictionary is grown.               *)
(***************************************************************************)
LoadedKeys ==
    { <<"a","b">>, <<"A","b">>, <<"A","B">>, <<"a">>, <<"c","d">>, <<"C","d">> }

LoadedEntries == {Simple(<<"a">>), Simple(<<"b">>)}

\* the dictionaries a data file may hold, in the model
LoadedDictionaries == UNION {[keys -> LoadedEntries] : keys \in SUBSET LoadedKeys}

InitGrow ==
    /\ lexicon = [british |-> FALSE, data |-> "full"]
    /\ Idle
    /\ \E d \in LoadedDictionaries :
           probe = [fn |-> "grow_dictionary", d |-> d, out |-> <<>>, step |-> 0]

Grow ==
    /\ probe.fn = "grow_dictionary"
    /\ probe.step = 0
    /\ probe' = [probe EXCEPT !.out = grow_dictionary(probe.d), !.step = 1]
    /\ UNCHANGED <<lexicon, stack, status, result>>

GrowSpec == InitGrow /\ [][Grow]_vars

\* C13: growing a dictionary never overwrites an existing key: every key of
\* the loaded dictionary has the same entry in the grown dictionary, also
\* when the loaded dictionary holds the lowercase and the capitalized form of
\* a word with different entries.
GrowKeepsLoadedEntries ==
    (probe.fn = "grow_dictionary" /\ probe.step = 1)
        => \A k \in DOMAIN probe.d :
               k \in DOMAIN probe.out /\ probe.out[k] = probe.d[k]

\* C14: in a call of g2p the context of token i is written only while token
\* i+1 is processed, and it does not change from the moment the processing
\* of token i starts; the last token is resolved with future_vowel unknown
\* and future_to false.
ContextWrittenByNextToken ==
    /\ [][\A d \in 1..Depth :
              d <= Len(stack')
                  => \A k \in 1..Len(stack[d].contexts) :
                         stack'[d].contexts[k] # stack[d].contexts[k]
                             => stack[d].i = k + 1]_vars
    /\ [](\A d \in 1..Depth :
              (stack[d].pc = "resolve" /\ stack[d].i = Len(stack[d].tokens))
                  => stack[d].contexts[stack[d].i] = DefaultContext)

(***************************************************************************)
(* Harness of get_special_case: it is applied to a word, a tag, a stress   *)
(* and a context.                                                          *)
(***************************************************************************)
SpecialWords ==
    { <<"i","n">>, <<"I","n">>, <<"I","N">>, <<"v","s">>, <<"V","s">>,
      <<"v","s",".">>, <<"V","S",".">>, <<"a",".","b">>, <<"t","o">> }

InitSpecial ==
    /\ lexicon \in Lexicons
    /\ Idle
    /\ \E word \in SpecialWords, tag \in Tags, ctx \in ProbeContexts,
          stress \in {NoStress, SomeStress(4)} :
           probe = [fn |-> "get_special_case", word |-> word, tag |-> tag,
                    stress |-> stress, ctx |-> ctx, out |-> NoResult, step |-> 0]

ProbeSpecialCase ==
    /\ probe.fn = "get_special_case"
    /\ probe.step = 0
    /\ probe' = [probe EXCEPT
           !.out = get_special_case(TheLexicon, probe.word, probe.tag, probe.stress, probe.ctx),
           !.step = 1]
    /\ UNCHANGED <<lexicon, stack, status, result>>

SpecialSpec == InitSpecial /\ [][ProbeSpecialCase]_vars

\* C15: for the word in or In, and IN when the tag is not NNP,
\* get_special_case returns the unstressed form exactly when the tag is IN
\* and the future_vowel of the context is unknown, the stressed form in every
\* other case, always with rating 4.
InIsUnstressedBeforeUnknown ==
    (/\ probe.fn = "get_special_case"
     /\ probe.step = 1
     /\ \/ probe.word \in {<<"i","n">>, <<"I","n">>}
        \/ probe.word = <<"I","N">> /\ probe.tag # "NNP")
        => probe.out =
               Found(IF probe.tag = "IN" /\ CtxFutureVowel(probe.ctx) = "none"
                     THEN <<"smallI", "n">>
                     ELSE <<primary, "smallI", "n">>, 4)

\* C16: for the tag IN and a word whose lowercase form is vs or vs.,
\* get_special_case returns the result of the lookup of versus; the dotted
\* form is not spelled as an initialism by the branch of the dotted words.
VsIsVersus ==
    (/\ probe.fn = "get_special_case"
     /\ probe.step = 1
     /\ probe.tag = "IN"
     /\ ToLower(probe.word) \in {<<"v","s">>, <<"v","s",".">>})
        => probe.out = lookup(TheLexicon, <<"v","e","r","s","u","s">>, "NN", NoStress, probe.ctx)

(***************************************************************************)
(* g2p on texts with the word used: the same calls of g2p, on other texts  *)
(* and with the tags of a verb and of an adjective.                        *)
(***************************************************************************)
UsedForms == { <<"u","s","e","d">>, <<"U","s","e","d">>, <<"U","S","E","D">> }

UsedWords == UsedForms \cup { <<"t","o">>, <<"T","O">>, <<"t","o","-">>, <<"u">>, <<"x","q">> }

UsedTexts == {Join(ws, <<" ">>) : ws \in UNION {[1..k -> UsedWords] : k \in 0..MaxWords}}

UsedTags == {"NN", "VBD", "JJ"}

InitUsed ==
    /\ lexicon \in Lexicons
    /\ \E text \in UsedTexts : stack = <<NewFrame(text)>>
    /\ status = "running"
    /\ result = EmptyResult
    /\ probe = [fn |-> "g2p", text |-> stack[1].text]

TagUsedTokens == TagTokensFrom(UsedTags)

NextUsed ==
    \/ TagUsedTokens
    \/ BuildContext
    \/ Resolve
    \/ Call
    \/ JoinResults
    \/ UpdateContext
    \/ Return

UsedSpec == InitUsed /\ [][NextUsed]_vars

\* the variant of the gold entry of used under a tag key
UsedVariant(tagkey) == golds[<<"u","s","e","d">>].map[tagkey].v

\* token k of tokens is followed by a token that lowercases to to
FollowedByTo(tokens, k) ==
    k < Len(tokens) /\ ToLower(tokens[k + 1].text) = <<"t","o">>

\* the phonemes of the tokens used, Used and USED that are resolved
UsedTokensFollowTo(tokens) ==
    \A k \in 1..Len(tokens) :
        (tokens[k].text \in UsedForms /\ tokens[k].phonemes.some)
            => tokens[k].phonemes.v =
                   IF tokens[k].tag \in {"VBD", "JJ"} /\ FollowedByTo(tokens, k)
                   THEN UsedVariant("VBD")
                   ELSE UsedVariant("DEFAULT")

\* C17: in g2p a token used, Used or USED gets the VBD variant of the gold
\* entry of used exactly when its tag is VBD or JJ and the token that follows
\* it lowercases to to; in every other case, the last token included, it gets
\* the DEFAULT variant.
UsedVariantFollowsTo ==
    /\ \A d \in 1..Depth : UsedTokensFollowTo(stack[d].tokens)
    /\ UsedTokensFollowTo(result.tokens)
    /\ Done => \A k \in 1..Len(result.tokens) :
                   result.tokens[k].text \in UsedForms => result.tokens[k].phonemes.some

UsedWitness ==
    /\ Done
    /\ Len(result.tokens) = 2
    /\ result.tokens[1].text = <<"U","S","E","D">>
    /\ result.tokens[1].tag = "JJ"
    /\ result.tokens[2].text = <<"T","O">>
    /\ result.tokens[1].phonemes = Some(UsedVariant("VBD"))
    /\ UsedVariant("VBD") # UsedVariant("DEFAULT")

(***************************************************************************)
(* get_nnp on gold dictionaries of letters: a letter has no entry, a       *)
(* Simple entry with or without stress marks and vowels, or a Tagged entry *)
(***************************************************************************)
NnpLetters == { <<"A">>, <<"B">> }

NnpEntries ==
    { Simple(<<primary, "A">>), Simple(<<secondary, "i", primary, "a">>),
      Simple(<<secondary, "a">>), Simple(<<"a">>), Simple(<<"b">>),
      Tagged([DEFAULT |-> Some(<<primary, "a">>)]) }

NnpDictionaries == UNION { [keys -> NnpEntries] : keys \in SUBSET NnpLetters }

NnpAlphabet == {"a", "A", "b", "B", ".", "cjk"}

MaxLetters == 3

NnpWords == UNION { [1..n -> NnpAlphabet] : n \in 0..MaxLetters }

InitNnp ==
    /\ lexicon = [british |-> FALSE, data |-> "full"]
    /\ Idle
    /\ \E dict \in NnpDictionaries, word \in NnpWords :
           probe = [fn |-> "get_nnp", golds |-> dict, word |-> word,
                    out |-> NoResult, step |-> 0]

GetNnp ==
    /\ probe.fn = "get_nnp"
    /\ probe.step = 0
    /\ probe' = [probe EXCEPT
           !.out = get_nnp([british |-> FALSE, golds |-> probe.golds, silvers |-> <<>>],
                           probe.word),
           !.step = 1]
    /\ UNCHANGED <<lexicon, stack, status, result>>

NnpSpec == InitNnp /\ [][GetNnp]_vars

\* the stress marks of ps: none, or secondary marks and then one primary mark
EndsInPrimaryMark(ps) ==
    /\ CountOf(ps, primary) <= 1
    /\ \A i \in 1..Len(ps) :
           IsStressMark(ps[i])
               => IF \E j \in (i + 1)..Len(ps) : IsStressMark(ps[j])
                  THEN ps[i] = secondary
                  ELSE ps[i] = primary

\* C18: get_nnp fails when an alphabetic character of the word has no
\* uppercase one-letter entry in the gold dictionary; when it succeeds the
\* rating is 3, the result has at most one primary stress mark, and the last
\* stress mark of the result, if any, is the primary one and all the marks
\* before it are secondary.
NnpSpellsEveryLetter ==
    (probe.fn = "get_nnp" /\ probe.step = 1)
        => /\ (\E i \in 1..Len(probe.word) :
                   /\ IsAlphabetic(probe.word[i])
                   /\ <<ToUpperChar(probe.word[i])>> \notin DOMAIN probe.golds)
               => ~probe.out.ok
           /\ probe.out.ok
               => /\ probe.out.rating = 3
                  /\ EndsInPrimaryMark(probe.out.ps)

NnpWitness ==
    /\ probe.fn = "get_nnp"
    /\ probe.step = 1
    /\ probe.out.ok
    /\ CountOf(probe.out.ps, secondary) >= 2
    /\ CountOf(probe.out.ps, primary) = 1
    /\ CountOf(NnpParts([golds |-> probe.golds], probe.word), primary) >= 2

(***************************************************************************)
(* lookup on its own: words, tags and contexts, no stress given            *)
(***************************************************************************)
InitLookup ==
    /\ lexicon \in Lexicons
    /\ Idle
    /\ \E word \in ProbeWords, tag \in Tags, ctx \in ProbeContexts :
           probe = [fn |-> "lookup", word |-> word, tag |-> tag, ctx |-> ctx,
                    out |-> NoResult, step |-> 0]

ProbeLookup ==
    /\ probe.fn = "lookup"
    /\ probe.step = 0
    /\ probe' = [probe EXCEPT
           !.out = lookup(TheLexicon, probe.word, probe.tag, NoStress, probe.ctx),
           !.step = 1]
    /\ UNCHANGED <<lexicon, stack, status, result>>

LookupSpec == InitLookup /\ [][ProbeLookup]_vars

\* a dictionary gives phonemes for the key under the tag and the context
TierResolves(dict, key, tag, ctx) ==
    key \in DOMAIN dict /\ resolve_phonemes(dict[key], tag, ctx).some

\* neither the gold nor the silver dictionary gives phonemes for the word or
\* for its lowercase form
InNoTier(self, word, tag, ctx) ==
    \A key \in {word, ToLower(word)} :
        /\ ~TierResolves(self.golds, key, tag, ctx)
        /\ ~TierResolves(self.silvers, key, tag, ctx)

\* every character of the word is a letter with an uppercase one-letter
\* Simple entry in the gold dictionary
EveryLetterInGold(self, word) ==
    /\ word # <<>>
    /\ \A i \in 1..Len(word) :
           /\ IsAlphabetic(word[i])
           /\ <<ToUpperChar(word[i])>> \in DOMAIN self.golds
           /\ self.golds[<<ToUpperChar(word[i])>>].kind = "Simple"

\* C19: when lookup finds phonemes for the word in neither the gold nor the
\* silver dictionary it spells the word letter by letter whatever the tag
\* is: the result is that of get_nnp, with rating 3, whenever every letter of
\* the word has an uppercase one-letter gold entry.
LookupSpellsWhateverTheTag ==
    (/\ probe.fn = "lookup"
     /\ probe.step = 1
     /\ InNoTier(TheLexicon, probe.word, probe.tag, probe.ctx)
     /\ EveryLetterInGold(TheLexicon, probe.word))
        => /\ probe.out.ok
           /\ probe.out.rating = 3
           /\ probe.out = get_nnp(TheLexicon, probe.word)

(***************************************************************************)
(* resolve_phonemes on its own: Simple entries and Tagged entries whose    *)
(* keys are present with a value, present with null, or absent             *)
(***************************************************************************)
ResolveKeys == {"VBD", "VERB", "NOUN", "ADV", "DEFAULT", "None"}

\* the value of a key: one phoneme that tells the keys apart
KeyPhonemes ==
    [k \in ResolveKeys |->
        CASE k = "VBD" -> <<"t">>
          [] k = "VERB" -> <<"d">>
          [] k = "NOUN" -> <<"s">>
          [] k = "ADV" -> <<"i">>
          [] k = "DEFAULT" -> <<"a">>
          [] OTHER -> <<"b">>]

ResolveMaps ==
    UNION { { [k \in keys |-> IF k \in nulls THEN None ELSE Some(KeyPhonemes[k])]
              : nulls \in SUBSET keys }
            : keys \in SUBSET ResolveKeys }

ResolveEntries == {Simple(<<"a">>)} \cup {Tagged(map) : map \in ResolveMaps}

ResolveTags == {"VBD", "VB", "NNP", "RB", "JJ", "IN", "VERB", "None"}

InitResolve ==
    /\ lexicon = [british |-> FALSE, data |-> "full"]
    /\ Idle
    /\ \E entry \in ResolveEntries, tag \in ResolveTags, ctx \in ProbeContexts :
           probe = [fn |-> "resolve_phonemes", entry |-> entry, tag |-> tag,
                    ctx |-> ctx, out |-> None, step |-> 0]

ResolvePhonemes ==
    /\ probe.fn = "resolve_phonemes"
    /\ probe.step = 0
    /\ probe' = [probe EXCEPT
           !.out = resolve_phonemes(probe.entry, probe.tag, probe.ctx),
           !.step = 1]
    /\ UNCHANGED <<lexicon, stack, status, result>>

ResolveSpec == InitResolve /\ [][ResolvePhonemes]_vars

\* the parent of each tag, as the prefixes of the tag give it
ParentOf ==
    [tag \in ResolveTags |->
        CASE tag \in {"VBD", "VB"} -> "VERB"
          [] tag = "NNP" -> "NOUN"
          [] tag = "RB" -> "ADV"
          [] tag = "JJ" -> "ADJ"
          [] OTHER -> tag]

\* the key is present in the map with a value that is not null
HasValue(map, key) == key \in DOMAIN map /\ map[key].some

\* the exact tag, then its parent, then DEFAULT
TagChain(map, tag) ==
    IF HasValue(map, tag) THEN map[tag]
    ELSE IF HasValue(map, ParentOf[tag]) THEN map[ParentOf[tag]]
    ELSE IF HasValue(map, "DEFAULT") THEN map["DEFAULT"]
    ELSE None

\* the tag is replaced by None: a context is given, its future_vowel is
\* unknown and the entry has the key None
TagOverridden(map, ctx) ==
    ctx.some /\ ctx.future_vowel = "none" /\ "None" \in DOMAIN map

\* C20: for a tagged entry resolve_phonemes returns the value under the
\* exact tag if it is present and not null, otherwise the value under the
\* parent tag, otherwise the value under DEFAULT; the tag is replaced by None
\* before this chain exactly when a context is given, its future_vowel is
\* unknown and the entry has a None key.
ResolveFollowsTagChain ==
    (/\ probe.fn = "resolve_phonemes"
     /\ probe.step = 1
     /\ probe.entry.kind = "Tagged")
        => probe.out =
               TagChain(probe.entry.map,
                        IF TagOverridden(probe.entry.map, probe.ctx)
                        THEN "None" ELSE probe.tag)

ResolveWitness ==
    /\ probe.fn = "resolve_phonemes"
    /\ probe.step = 1
    /\ probe.entry.kind = "Tagged"
    /\ probe.tag = "VBD"
    /\ DOMAIN probe.entry.map = ResolveKeys
    /\ ~probe.entry.map["VBD"].some
    /\ probe.entry.map["DEFAULT"].some
    /\ probe.entry.map["None"].some
    /\ probe.ctx.some
    /\ probe.ctx.future_vowel = "yes"
    /\ probe.out = Some(KeyPhonemes["VERB"])

(***************************************************************************)
(* The stemmers and get_word with a stress value, on the dictionary of     *)
(* the stemmers                                                            *)
(***************************************************************************)
StemWords ==
    { <<"c","a","n","i","n","g">>, <<"C","A","N","I","N","G">>,
      <<"r","u","n","n","i","n","g">>, <<"p","a","n","i","c","k","i","n","g">>,
      <<"e","g","g","g","i","n","g">>, <<"E","G","G","G","I","N","G">>,
      <<"c","a","t","s">>, <<"b","a","k","e","d">>, <<"b","a","k","i","n","g">>,
      <<"p","l","a","y","i","n","g">>, <<"p","l","a","y","e","d">>,
      <<"c","a","t">>, <<"r","u","n","s">> }

StemStresses == {NoStress, SomeStress(1), SomeStress(4)}

InitStem ==
    /\ lexicon \in {[british |-> b, data |-> "stems"] : b \in BOOLEAN}
    /\ Idle
    /\ \E word \in StemWords, tag \in {"NN", "VBD"}, stress \in StemStresses :
           probe = [fn |-> "stem", word |-> word, tag |-> tag, stress |-> stress,
                    out |-> NoResult, step |-> 0]

ProbeStemS ==
    /\ probe.fn = "stem"
    /\ probe.step = 0
    /\ probe' = [probe EXCEPT
           !.fn = "stem_s",
           !.out = stem_s(TheLexicon, probe.word, probe.tag, probe.stress, NoCtx),
           !.step = 1]
    /\ UNCHANGED <<lexicon, stack, status, result>>

ProbeStemEd ==
    /\ probe.fn = "stem"
    /\ probe.step = 0
    /\ probe' = [probe EXCEPT
           !.fn = "stem_ed",
           !.out = stem_ed(TheLexicon, probe.word, probe.tag, probe.stress, NoCtx),
           !.step = 1]
    /\ UNCHANGED <<lexicon, stack, status, result>>

ProbeStemIng ==
    /\ probe.fn = "stem"
    /\ probe.step = 0
    /\ probe' = [probe EXCEPT
           !.fn = "stem_ing",
           !.out = stem_ing(TheLexicon, probe.word, probe.tag, probe.stress, NoCtx),
           !.step = 1]
    /\ UNCHANGED <<lexicon, stack, status, result>>

ProbeGetWordStressed ==
    /\ probe.fn = "stem"
    /\ probe.step = 0
    /\ probe' = [probe EXCEPT
           !.fn = "get_word",
           !.out = get_word(TheLexicon, probe.word, probe.tag, probe.stress, NoCtx),
           !.step = 1]
    /\ UNCHANGED <<lexicon, stack, status, result>>

NextStem == ProbeStemS \/ ProbeStemEd \/ ProbeStemIng \/ ProbeGetWordStressed

StemSpec == InitStem /\ [][NextStem]_vars

\* the form of the word that get_word looks up and stems
CurrentWordOf(self, word, tag, stress, ctx) ==
    IF /\ FoldsCase(self, word, tag)
       /\ \/ InDictionaries(self, ToLower(word))
          \/ Stems(self, ToLower(word), tag, stress, stress, ctx).ok
    THEN ToLower(word)
    ELSE word

\* get_word reaches its stemming step for the word
ReachesStemming(self, word, tag, stress, ctx) ==
    /\ ~get_special_case(self, word, tag, stress, ctx).ok
    /\ ~KnownForm(self, CurrentWordOf(self, word, tag, stress, ctx), tag).some

\* C21: in the stemming step of get_word the -ing stemmer receives the
\* stress 0.5 only when the caller gave no stress; when the caller gave a
\* stress the -ing stemmer receives that stress, as the -s and the -ed
\* stemmers do.
IngStemmerGetsCallerStress ==
    (/\ probe.fn = "get_word"
     /\ probe.step = 1
     /\ probe.stress.some
     /\ ReachesStemming(TheLexicon, probe.word, probe.tag, probe.stress, NoCtx))
        => probe.out =
               Stems(TheLexicon,
                     CurrentWordOf(TheLexicon, probe.word, probe.tag, probe.stress, NoCtx),
                     probe.tag, probe.stress, probe.stress, NoCtx)


\* the word is base + c + ing with base ending in the same consonant c of
\* the list, or base + king with base ending in c
HasDoubledConsonant(lower) ==
    /\ Len(lower) >= 6
    /\ EndsWith(lower, <<"i","n","g">>)
    /\ \/ /\ lower[Len(lower) - 3] = lower[Len(lower) - 4]
          /\ lower[Len(lower) - 3] \in DoubledConsonants
       \/ EndsWith(lower, <<"c","k","i","n","g">>)

\* C22: for a word base + c + ing where base ends in the same consonant c of
\* b c d g k l m n p r s t v x z, or base + king where base ends in c, if the
\* word without its last four characters is known and neither the word
\* without ing nor that with e is known, stem_ing succeeds, and its stem is
\* the word without its last four characters.
DoubledConsonantIsStemmed ==
    (/\ probe.fn = "stem_ing"
     /\ probe.step = 1
     /\ HasDoubledConsonant(ToLower(probe.word))
     /\ is_known(TheLexicon, DropLast(ToLower(probe.word), 4), probe.tag)
     /\ ~is_known(TheLexicon, DropLast(ToLower(probe.word), 3), probe.tag)
     /\ ~is_known(TheLexicon, DropLast(ToLower(probe.word), 3) \o <<"e">>, probe.tag))
        => /\ probe.out.ok
           /\ probe.out.rating =
                  lookup(TheLexicon, DropLast(ToLower(probe.word), 4), probe.tag,
                         probe.stress, NoCtx).rating

\* the base forms a stemmer may choose for a word
StemBases(lower) ==
    {DropLast(lower, k) : k \in 1..4}
        \cup {DropLast(lower, 3) \o <<"e">>, DropLast(lower, 3) \o <<"y">>}

\* the append function of a stemmer, applied to the phonemes of a base
Appended(fn, self, bps) ==
    CASE fn = "stem_s" -> Some(append_s(self, bps))
      [] fn = "stem_ed" -> Some(append_ed(self, bps))
      [] OTHER -> append_ing(self, bps)

\* C23: when stem_s, stem_ed or stem_ing returns (ps, r) for a word there is
\* a base form b with lookup(b, tag, stress, ctx) = (bps, r) such that ps is
\* the append function of the stemmer applied to the phonemes bps; no branch
\* applies the suffix to the spelling of the base.
StemsAppendToPhonemes ==
    (/\ probe.fn \in {"stem_s", "stem_ed", "stem_ing"}
     /\ probe.step = 1
     /\ probe.out.ok)
        => \E b \in StemBases(ToLower(probe.word)) :
               /\ lookup(TheLexicon, b, probe.tag, probe.stress, NoCtx).ok
               /\ lookup(TheLexicon, b, probe.tag, probe.stress, NoCtx).rating
                      = probe.out.rating
               /\ Some(probe.out.ps) =
                      Appended(probe.fn, TheLexicon,
                               lookup(TheLexicon, b, probe.tag, probe.stress, NoCtx).ps)


\* C24: every token that is numeric (without its commas it parses as a
\* signed 64-bit integer, a leading minus sign included) and that get_word
\* does not resolve gets as phonemes the result of g2p on the English words
\* of that signed integer: the calls prepared for it are the one call of the
\* number path, on the words of convert_number.
NumericTokensAreSpoken ==
    \A d \in 1..Depth :
        (/\ stack[d].pc = "call"
         /\ is_number(stack[d].tokens[stack[d].i].text))
            => /\ stack[d].how = "number"
               /\ stack[d].pending \in
                      {<<>>, <<convert_number(stack[d].tokens[stack[d].i].text)>>}

(***************************************************************************)
(* Tagger (tagger.rs). The weights are integers in the model; a feature is *)
(* a key of the weights, a class is a string.                              *)
(***************************************************************************)
\* predict, lines 19-28: the sum over the features of weight * value for a
\* label; a feature without weights, a value 0 and a label without a weight
\* add nothing
RECURSIVE ScoreOf(_, _, _, _)
ScoreOf(self, word_features, todo, label) ==
    IF todo = {} THEN 0
    ELSE LET feature == CHOOSE f \in todo : TRUE
             here == IF /\ feature \in DOMAIN self.feature_weights
                        /\ word_features[feature] # 0
                        /\ label \in DOMAIN self.feature_weights[feature]
                     THEN self.feature_weights[feature][label] * word_features[feature]
                     ELSE 0
         IN  here + ScoreOf(self, word_features, todo \ {feature}, label)

Score(self, word_features, label) ==
    ScoreOf(self, word_features, DOMAIN word_features, label)

\* Iterator::max_by, lines 30-36: the fold keeps the element it holds only
\* when it compares greater than the next one, so that of several maximal
\* classes the last one is returned
RECURSIVE MaxBy(_, _, _, _)
MaxBy(self, word_features, best, k) ==
    IF k > Len(self.classes) THEN best
    ELSE IF Score(self, word_features, best) > Score(self, word_features, self.classes[k])
    THEN MaxBy(self, word_features, best, k + 1)
    ELSE MaxBy(self, word_features, self.classes[k], k + 1)

\* AveragedPerceptron::predict: the class and its score
PredictedClass(self, word_features, class) ==
    [class |-> class, score |-> Score(self, word_features, class)]

predict(self, word_features) ==
    PredictedClass(self, word_features, MaxBy(self, word_features, self.classes[1], 2))

(***************************************************************************)
(* predict on its own: weights of two features for three labels, one of    *)
(* them outside the class list, and feature values 0, 1 and 2              *)
(***************************************************************************)
PredictClasses == <<"NN", "VB", "JJ">>

PredictWeights == [{"bias", "i word"} -> [{"NN", "VB", "XX"} -> {-1, 0, 1}]]

PredictFeatures == [{"bias", "i word", "i pref1"} -> {0, 1, 2}]

InitPredict ==
    /\ lexicon = [british |-> FALSE, data |-> "full"]
    /\ Idle
    /\ \E weights \in PredictWeights, word_features \in PredictFeatures :
           probe = [fn |-> "predict",
                    model |-> [feature_weights |-> weights, classes |-> PredictClasses],
                    word_features |-> word_features,
                    out |-> [class |-> "", score |-> 0],
                    step |-> 0]

Predict ==
    /\ probe.fn = "predict"
    /\ probe.step = 0
    /\ probe' = [probe EXCEPT !.out = predict(probe.model, probe.word_features),
                              !.step = 1]
    /\ UNCHANGED <<lexicon, stack, status, result>>

PredictSpec == InitPredict /\ [][Predict]_vars

\* C25: predict returns a class whose summed score is maximal over the
\* class list, and of several classes with the maximal score the one that
\* comes first in the class list.
PredictReturnsFirstMaximum ==
    (probe.fn = "predict" /\ probe.step = 1)
        => \E k \in 1..Len(probe.model.classes) :
               /\ probe.out.class = probe.model.classes[k]
               /\ \A j \in 1..Len(probe.model.classes) :
                      Score(probe.model, probe.word_features, probe.model.classes[j])
                          <= Score(probe.model, probe.word_features, probe.model.classes[k])
               /\ \A j \in 1..(k - 1) :
                      Score(probe.model, probe.word_features, probe.model.classes[j])
                          < Score(probe.model, probe.word_features, probe.model.classes[k])


(***************************************************************************)
(* PerceptronTagger::tag, one step per token. A word is a sequence of      *)
(* characters; a word of the padded context that stands for a class of     *)
(* words, or for a border, is a sequence of one element.                   *)
(***************************************************************************)
ContainsSeq(s, sub) ==
    \E k \in 0..(Len(s) - Len(sub)) : SubSeq(s, k + 1, k + Len(sub)) = sub

\* token.parse::<usize>().is_ok(): digits, after a plus sign or not
ParsesUsize(token) ==
    LET digits == IF token # <<>> /\ Head(token) = "+" THEN Tail(token) ELSE token
    IN  digits # <<>> /\ \A k \in 1..Len(digits) : IsDigit(digits[k])

\* tag, lines 74-82: the word of the context for a token
ContextWord(token) ==
    IF ContainsSeq(token, <<"'", "-", "'">>) /\ ~StartsWith(token, <<"-">>)
    THEN <<"!HYPHEN">>
    ELSE IF ParsesUsize(token) /\ ByteLen(token) = 4 THEN <<"!YEAR">>
    ELSE IF token # <<>> /\ IsDigit(Head(token)) THEN <<"!DIGITS">>
    ELSE token

\* tag, lines 70-85: the padded context
PaddedContext(words) ==
    <<<<"-START-">>, <<"-START2-">>>>
        \o [k \in 1..Len(words) |-> ContextWord(words[k])]
        \o <<<<"-END-">>, <<"-END2-">>>>

\* the last three characters of a word
Suffix3(word) == SubSeq(word, IF Len(word) > 3 THEN Len(word) - 2 ELSE 1, Len(word))

\* get_features: the features of the token at index i of the context (i
\* counts from 1 here), each with the value 1; a feature is the sequence of
\* its name and of the characters that follow it
get_features(i, word, context, prev, prev2) ==
    LET names ==
            { <<"bias">>,
              <<"i suffix">> \o Suffix3(word),
              <<"i pref1">> \o SubSeq(word, 1, 1),
              <<"i-1 tag", prev>>,
              <<"i-2 tag", prev2>>,
              <<"i tag+i-2 tag", prev, prev2>>,
              <<"i word">> \o context[i],
              <<"i-1 tag+i word", prev>> \o context[i],
              <<"i-1 word">> \o context[i - 1],
              <<"i-2 word">> \o context[i - 2],
              <<"i+1 word">> \o context[i + 1],
              <<"i+2 word">> \o context[i + 2],
              <<"i+1 suffix">> \o Suffix3(context[i + 1]),
              <<"i-1 suffix">> \o Suffix3(context[i - 1]) }
    IN  [f \in names |-> 1]

\* a faulty variant of AdvanceTags: prev2 keeps its value
AdvanceTagsStale(prev, prev2, tag) == [prev |-> tag, prev2 |-> prev2]

\* tag, lines 93-94 and 103-104: prev2 = prev; prev = tag
AdvanceTags(prev, prev2, tag) == [prev |-> tag, prev2 |-> prev]

\* words of the inputs: a hyphen inside a word, with and without quotes, a
\* year, a plus sign before three digits, a digit before a letter, a word of
\* the override table, and a word that is none of these
TaggerWords ==
    { <<"a","-","b">>, <<"a","'","-","'","b">>, <<"1","9","9","9">>, <<"+","1","2","3">>,
      <<"5","a">>, <<"t","h","e">>, <<"c","a","t">> }

MaxTagged == 3

TaggerInputs == UNION {[1..n -> TaggerWords] : n \in 0..MaxTagged}

TaggerClasses == <<"NN", "VB", "JJ", "CD">>

\* two models: the tag of a token depends on the tag before it, on the tag
\* before that one, and on the word of the context
TaggerWeights ==
    { (<<"bias">> :> [NN |-> 1])
          @@ (<<"i-1 tag", "NN">> :> [VB |-> 2])
          @@ (<<"i-2 tag", "NN">> :> [JJ |-> 3])
          @@ (<<"i word", "!YEAR">> :> [CD |-> 5]),
      (<<"bias">> :> [VB |-> 1])
          @@ (<<"i-1 tag", "DT">> :> [NN |-> 2])
          @@ (<<"i tag+i-2 tag", "NN", "DT">> :> [JJ |-> 4])
          @@ (<<"i word", "!DIGITS">> :> [CD |-> 5])
          @@ (<<"i-1 word", "!HYPHEN">> :> [NN |-> 3]) }

TaggerOverrides == (<<"t","h","e">> :> "DT") @@ (<<"+","1","2","3">> :> "CD")

InitTagger ==
    /\ lexicon = [british |-> FALSE, data |-> "full"]
    /\ Idle
    /\ \E words \in TaggerInputs, weights \in TaggerWeights :
           probe = [fn |-> "tag",
                    model |-> [feature_weights |-> weights, classes |-> TaggerClasses],
                    tags |-> TaggerOverrides,
                    words |-> words,
                    context |-> <<>>,
                    prev |-> "-START-",
                    prev2 |-> "-START2-",
                    pairs |-> <<>>,
                    output |-> <<>>,
                    pc |-> "context"]

\* lines 70-85
BuildTagContext ==
    /\ probe.fn = "tag"
    /\ probe.pc = "context"
    /\ probe' = [probe EXCEPT !.context = PaddedContext(probe.words),
                              !.pc = IF probe.words = <<>> THEN "done" ELSE "loop"]
    /\ UNCHANGED <<lexicon, stack, status, result>>

\* the token of the loop's iteration, the tag it gets and the state after it
Tagged1(token, tag, conf) ==
    LET next == AdvanceTags(probe.prev, probe.prev2, tag)
    IN  [probe EXCEPT
            !.output = Append(probe.output, [word |-> token, tag |-> tag, conf |-> conf]),
            !.pairs = Append(probe.pairs, [prev |-> probe.prev, prev2 |-> probe.prev2]),
            !.prev = next.prev,
            !.prev2 = next.prev2,
            !.pc = IF Len(probe.output) + 1 = Len(probe.words) THEN "done" ELSE "loop"]

\* lines 88-95: a word of the override table
TagOverride ==
    /\ probe.fn = "tag"
    /\ probe.pc = "loop"
    /\ probe.words[Len(probe.output) + 1] \in DOMAIN probe.tags
    /\ probe' = Tagged1(probe.words[Len(probe.output) + 1],
                        probe.tags[probe.words[Len(probe.output) + 1]], 1)
    /\ UNCHANGED <<lexicon, stack, status, result>>

PredictedTag(token, predicted) == Tagged1(token, predicted.class, predicted.score)

\* lines 96-105: the tag the model predicts from the features
TagPredict ==
    /\ probe.fn = "tag"
    /\ probe.pc = "loop"
    /\ probe.words[Len(probe.output) + 1] \notin DOMAIN probe.tags
    /\ probe' = PredictedTag(probe.words[Len(probe.output) + 1],
                             predict(probe.model,
                                     get_features(Len(probe.output) + 3,
                                                  probe.words[Len(probe.output) + 1],
                                                  probe.context, probe.prev, probe.prev2)))
    /\ UNCHANGED <<lexicon, stack, status, result>>

NextTagger == BuildTagContext \/ TagOverride \/ TagPredict

TaggerSpec == InitTagger /\ [][NextTagger]_vars

\* a hyphen inside the word: not its first and not its last character
HasInternalHyphen(word) == \E k \in 2..(Len(word) - 1) : word[k] = "-"

\* C26: in the padded context of the tagger every word with an internal
\* hyphen is replaced by !HYPHEN, every word of exactly four digits by !YEAR,
\* every other word that begins with a digit by !DIGITS, and every other word
\* is kept as it is.
ContextWordsAreClassified ==
    (probe.fn = "tag" /\ probe.pc # "context")
        => /\ Len(probe.context) = Len(probe.words) + 4
           /\ \A k \in 1..Len(probe.words) :
                  probe.context[k + 2] =
                      IF HasInternalHyphen(probe.words[k]) THEN <<"!HYPHEN">>
                      ELSE IF /\ Len(probe.words[k]) = 4
                              /\ \A j \in 1..4 : IsDigit(probe.words[k][j])
                      THEN <<"!YEAR">>
                      ELSE IF IsDigit(Head(probe.words[k])) THEN <<"!DIGITS">>
                      ELSE probe.words[k]

\* C27: tag returns one tag per input word, in the order of the input; a
\* word of the override table gets its mapped tag; the pair (prev, prev2) of
\* the first token is (-START-, -START2-), and for every later token prev is
\* the tag emitted for the token before it and prev2 is the value prev had
\* for the token before it.
TagsAdvancePerToken ==
    probe.fn = "tag"
        => /\ Len(probe.output) <= Len(probe.words)
           /\ Len(probe.pairs) = Len(probe.output)
           /\ probe.pc = "done" => Len(probe.output) = Len(probe.words)
           /\ \A k \in 1..Len(probe.output) :
                  /\ probe.output[k].word = probe.words[k]
                  /\ probe.words[k] \in DOMAIN probe.tags
                         => probe.output[k].tag = probe.tags[probe.words[k]]
                  /\ probe.pairs[k] =
                         IF k = 1 THEN [prev |-> "-START-", prev2 |-> "-START2-"]
                         ELSE [prev |-> probe.output[k - 1].tag,
                               prev2 |-> probe.pairs[k - 1].prev]

TagsWitness ==
    /\ probe.fn = "tag"
    /\ probe.pc = "done"
    /\ Len(probe.output) = 3
    /\ probe.words[1] \in DOMAIN probe.tags
    /\ probe.words[2] \notin DOMAIN probe.tags
    /\ probe.words[3] \notin DOMAIN probe.tags
    /\ probe.pairs[3] = [prev |-> probe.output[2].tag, prev2 |-> "DT"]
    /\ probe.output[3].tag = "JJ"


(***************************************************************************)
(* Fallback (fallback.rs): the normalization of the phonemes of espeak     *)
(***************************************************************************)
\* str::replace: the matches of pat are replaced from left to right, a match
\* never overlaps the one before it, and the text put in is not searched
RECURSIVE ReplaceAll(_, _, _)
ReplaceAll(s, pat, rep) ==
    IF Len(s) < Len(pat) THEN s
    ELSE IF SubSeq(s, 1, Len(pat)) = pat
    THEN rep \o ReplaceAll(SubSeq(s, Len(pat) + 1, Len(s)), pat, rep)
    ELSE <<Head(s)>> \o ReplaceAll(Tail(s), pat, rep)

\* lines 91-105: the long vowels (a replacement of a string by itself is
\* left out)
ConvertVowels(s) ==
    ReplaceAll(ReplaceAll(ReplaceAll(ReplaceAll(ReplaceAll(
    ReplaceAll(ReplaceAll(ReplaceAll(ReplaceAll(ReplaceAll(s,
        <<"i", "len">>, <<primary, "i">>),
        <<"i", ":">>, <<primary, "i">>),
        <<"u", "len">>, <<primary, "u">>),
        <<"u", ":">>, <<primary, "u">>),
        <<"reveps", "len">>, <<"reveps">>),
        <<"reveps", ":">>, <<"reveps">>),
        <<"openo", "len">>, <<"openo">>),
        <<"openo", ":">>, <<"openo">>),
        <<"alpha", "len">>, <<"alpha">>),
        <<"alpha", ":">>, <<"alpha">>)

\* lines 121-122: the length marks and the syllable borders
RemoveMarkers(s) == ReplaceAll(ReplaceAll(s, <<"len">>, <<>>), <<"_">>, <<>>)

\* lines 126-129: one pass for each pair of stress marks
CollapseStress(s) ==
    ReplaceAll(ReplaceAll(ReplaceAll(ReplaceAll(s,
        <<primary, primary>>, <<primary>>),
        <<secondary, secondary>>, <<secondary>>),
        <<primary, secondary>>, <<primary>>),
        <<secondary, primary>>, <<secondary>>)

convert_espeak_to_misaki(espeak_ipa) ==
    CollapseStress(RemoveMarkers(ConvertVowels(espeak_ipa)))

EspeakAlphabet == {"PRI", "SEC", "i", "len", ":", "_", "openo"}

MaxIpa == 4

EspeakStrings == UNION {[1..n -> EspeakAlphabet] : n \in 0..MaxIpa}

InitConvert ==
    /\ lexicon = [british |-> FALSE, data |-> "full"]
    /\ Idle
    /\ \E s \in EspeakStrings :
           probe = [fn |-> "convert_espeak_to_misaki", espeak_ipa |-> s,
                    out |-> <<>>, step |-> 0]

ConvertEspeak ==
    /\ probe.fn = "convert_espeak_to_misaki"
    /\ probe.step = 0
    /\ probe' = [probe EXCEPT !.out = convert_espeak_to_misaki(probe.espeak_ipa),
                              !.step = 1]
    /\ UNCHANGED <<lexicon, stack, status, result>>

ConvertSpec == InitConvert /\ [][ConvertEspeak]_vars

\* C28: for every input the output of convert_espeak_to_misaki has no two
\* adjacent stress marks, also when the input has a stress mark before a long
\* vowel or a run of three or more marks.
NoAdjacentStressMarks ==
    (probe.fn = "convert_espeak_to_misaki" /\ probe.step = 1)
        => \A k \in 1..(Len(probe.out) - 1) :
               ~(IsStressMark(probe.out[k]) /\ IsStressMark(probe.out[k + 1]))


(***************************************************************************)
(* EspeakFallback::phonemize called by several threads. initialise gives   *)
(* every call the one mutex of the process around the speaker of espeak;   *)
(* the guard lives from line 36 to the end of the call.                    *)
(***************************************************************************)
Threads == {"us", "gb", "us2"}

\* lines 39-43
VoiceOf(t) == IF t = "gb" THEN "en" ELSE "en-us"

\* bound of the model: the calls of phonemize a thread makes
MaxCalls == 2

NoCall == [thread |-> "none", call |-> 0]

\* the voice under which a call generated its phonemes, and the call that
\* selected that voice: none before the generation
NotGenerated == [voice |-> "none", selector |-> NoCall]

InitPhonemize ==
    /\ lexicon = [british |-> FALSE, data |-> "full"]
    /\ Idle
    /\ probe = [fn |-> "phonemize",
                pc |-> [t \in Threads |-> "idle"],
                call |-> [t \in Threads |-> 1],
                holder |-> "none",
                voice |-> "default",
                selector |-> NoCall,
                selected |-> [t \in Threads |-> FALSE],
                generated |-> [t \in Threads |-> NotGenerated],
                rating |-> [t \in Threads |-> 0]]

\* a faulty variant of MutexIsFree: the lock is given though it is held
MutexIsTaken(holder) == TRUE

\* Mutex::lock, line 36: the call waits until no guard is alive
MutexIsFree(holder) == holder = "none"

\* lines 27-34: the mutex of the speaker, or the word itself with rating 0
Initialise(t) ==
    /\ probe.fn = "phonemize"
    /\ probe.pc[t] = "idle"
    /\ \/ probe' = [probe EXCEPT !.pc[t] = "lock", !.selected[t] = FALSE,
                                 !.generated[t] = NotGenerated]
       \/ probe' = [probe EXCEPT !.pc[t] = "return", !.selected[t] = FALSE,
                                 !.generated[t] = NotGenerated, !.rating[t] = 0]
    /\ UNCHANGED <<lexicon, stack, status, result>>

\* line 36
LockSpeaker(t) ==
    /\ probe.fn = "phonemize"
    /\ probe.pc[t] = "lock"
    /\ MutexIsFree(probe.holder)
    /\ probe' = [probe EXCEPT !.holder = t, !.pc[t] = "set_voice"]
    /\ UNCHANGED <<lexicon, stack, status, result>>

\* lines 45-48: the voice is selected, or set_voice_raw fails and the call
\* goes on with the voice the speaker has
SetVoice(t) ==
    /\ probe.fn = "phonemize"
    /\ probe.pc[t] = "set_voice"
    /\ \/ probe' = [probe EXCEPT !.voice = VoiceOf(t),
                                 !.selector = [thread |-> t, call |-> probe.call[t]],
                                 !.selected[t] = TRUE,
                                 !.pc[t] = "generate"]
       \/ probe' = [probe EXCEPT !.pc[t] = "generate"]
    /\ UNCHANGED <<lexicon, stack, status, result>>

\* lines 59-74: the phonemes are generated under the voice of the speaker;
\* rating 1 with phonemes, rating 0 without
TextToPhonemes(t) ==
    /\ probe.fn = "phonemize"
    /\ probe.pc[t] = "generate"
    /\ \E rating \in {0, 1} :
           probe' = [probe EXCEPT
               !.generated[t] = [voice |-> probe.voice, selector |-> probe.selector],
               !.rating[t] = rating,
               !.pc[t] = "unlock"]
    /\ UNCHANGED <<lexicon, stack, status, result>>

\* line 75: the guard is dropped when the call returns
DropGuard(t) ==
    /\ probe.fn = "phonemize"
    /\ probe.pc[t] = "unlock"
    /\ probe' = [probe EXCEPT !.holder = IF probe.holder = t THEN "none" ELSE probe.holder,
                              !.pc[t] = "return"]
    /\ UNCHANGED <<lexicon, stack, status, result>>

\* the next call of the thread
NextCall(t) ==
    /\ probe.fn = "phonemize"
    /\ probe.pc[t] = "return"
    /\ probe.call[t] < MaxCalls
    /\ probe' = [probe EXCEPT !.call[t] = probe.call[t] + 1, !.pc[t] = "idle"]
    /\ UNCHANGED <<lexicon, stack, status, result>>

NextPhonemize ==
    \E t \in Threads :
        \/ Initialise(t)
        \/ LockSpeaker(t)
        \/ SetVoice(t)
        \/ TextToPhonemes(t)
        \/ DropGuard(t)
        \/ NextCall(t)

PhonemizeSpec == InitPhonemize /\ [][NextPhonemize]_vars

InCriticalSection(t) == probe.pc[t] \in {"set_voice", "generate", "unlock"}

WithoutStressMarks(ps) == SelectSeq(ps, LAMBDA c : ~IsStressMark(c))

\* C30: apply_stress changes nothing but stress marks: for every phoneme
\* string ps and every stress, none included, apply_stress(ps, s) without
\* its primary and secondary marks is ps without its marks, and without a
\* stress the result is ps.
ApplyStressKeepsPhonemes ==
    (probe.fn = "apply_stress" /\ probe.step >= 1)
        => /\ WithoutStressMarks(probe.out) = WithoutStressMarks(probe.ps)
           /\ ~probe.stress.some => probe.out = probe.ps

KeepsPhonemesWitness ==
    /\ probe.fn = "apply_stress"
    /\ probe.step = 1
    /\ probe.stress = SomeStress(1)
    /\ probe.ps = <<"b", "a", "i">>
    /\ probe.out = <<"b", secondary, "a", "i">>

====
